---- MODULE Spec2Model ----
(***************************************************************************)
(* Plan-then-execute orchestration of the Chat agent (server.ts):          *)
(* onChatMessage, executeTask, processStep, outputCombinedResult and the   *)
(* knowledge upsert they feed, and the writers of the knowledge table and *)
(* the quiz ledger (recordQuiz, updateKnowledge and their tools).  Text is *)
(* modelled as sequences of                                                *)
(* one-character strings so that the regular expressions of the source     *)
(* can be computed; JavaScript arrays are 0-based, sequences here are      *)
(* 1-based, so slot k of the source is position k+1.                       *)
(***************************************************************************)
EXTENDS Integers, Sequences, FiniteSets, TLC

\* ------------------------------------------------------------------ bounds
MaxPlan == 3
MaxUserMsgs == 2
MaxRestarts == 1
MaxQuizzes == 2
MaxRepeats == 3
MaxTopics == 3
MaxSessions == 2
MaxLedger == 11

\* -------------------------------------------------------------- text tools
UpperChars == <<"A","B","C","D","E","F","G","H","I","J","K","L","M","N","O","P","Q","R","S","T","U","V","W","X","Y","Z">>
LowerChars == <<"a","b","c","d","e","f","g","h","i","j","k","l","m","n","o","p","q","r","s","t","u","v","w","x","y","z">>

\* String.prototype.toLowerCase on one character (the /i flag of the regexes)
lower(c) ==
  IF \E i \in 1..26 : UpperChars[i] = c
  THEN LowerChars[CHOOSE i \in 1..26 : UpperChars[i] = c]
  ELSE c

\* \s of the regexes and of String.prototype.trim
IsSpace(c) == c \in {" ", "\t", "\n"}

\* \d of the regexes
IsDigit(c) == c \in {"0","1","2","3","4","5","6","7","8","9"}

\* s.substring(n) for 0 <= n <= s.length
DropFirst(s, n) == SubSeq(s, n + 1, Len(s))

\* s.substring(0, n)
TakeFirst(s, n) == SubSeq(s, 1, n)

\* number of leading whitespace characters of s
LeadSpaces(s) ==
  IF \E i \in 1..Len(s) : ~IsSpace(s[i])
  THEN (CHOOSE i \in 1..Len(s) : ~IsSpace(s[i]) /\ \A j \in 1..(i-1) : IsSpace(s[j])) - 1
  ELSE Len(s)

\* number of trailing whitespace characters of s
TrailSpaces(s) ==
  IF \E i \in 1..Len(s) : ~IsSpace(s[i])
  THEN Len(s) - (CHOOSE i \in 1..Len(s) : ~IsSpace(s[i]) /\ \A j \in (i+1)..Len(s) : IsSpace(s[j]))
  ELSE Len(s)

\* String.prototype.trim
trim(s) ==
  IF LeadSpaces(s) = Len(s) THEN <<>>
  ELSE SubSeq(s, LeadSpaces(s) + 1, Len(s) - TrailSpaces(s))

\* pat (lower case) occurs in s at 1-based position p, ignoring case
MatchAtCI(s, p, pat) ==
  /\ p + Len(pat) - 1 <= Len(s)
  /\ \A i \in 1..Len(pat) : lower(s[p + i - 1]) = pat[i]

\* alternatives of the leading-phrase regex of extractTopicFromPrompt
QuestionPrefixes ==
  { <<"e","x","p","l","a","i","n">>,
    <<"w","h","a","t"," ","i","s">>,
    <<"w","h","a","t"," ","a","r","e">>,
    <<"h","o","w"," ","d","o","e","s">>,
    <<"h","o","w"," ","d","o">>,
    <<"t","e","l","l"," ","m","e"," ","a","b","o","u","t">>,
    <<"t","e","a","c","h"," ","m","e">>,
    <<"d","e","s","c","r","i","b","e">>,
    <<"d","e","f","i","n","e">>,
    <<"h","e","l","p"," ","m","e"," ","u","n","d","e","r","s","t","a","n","d">> }

\* alternatives of the trailing-filler regex of extractTopicFromPrompt
FillerPhrases ==
  { <<"w","o","r","k">>,
    <<"w","o","r","k","s">>,
    <<"i","n"," ","d","e","t","a","i","l">>,
    <<"f","u","l","l","y">>,
    <<"p","l","e","a","s","e">>,
    <<"f","o","r"," ","m","e">>,
    <<"t","o"," ","m","e">>,
    <<"s","t","e","p"," ","b","y"," ","s","t","e","p">> }

\* s.replace(/^(explain|what is|...|how does|how do|...)\s*/i, ""): the
\* alternation is ordered, so "how does" is tried before its prefix "how do"
StripQuestionPrefix(s) ==
  LET hits    == {pat \in QuestionPrefixes : MatchAtCI(s, 1, pat)}
      howdoes == <<"h","o","w"," ","d","o","e","s">>
  IN  IF hits = {} THEN s
      ELSE LET pat  == IF howdoes \in hits THEN howdoes ELSE CHOOSE q \in hits : TRUE
               rest == DropFirst(s, Len(pat))
           IN  DropFirst(rest, LeadSpaces(rest))

\* s.replace(/\s*(work|works|...|step by step).*$/i, ""): cut at the leftmost
\* match, which starts at the whitespace run in front of the first filler
\* phrase ("." does not match a line break: such a match is not found)
StripTrailingFiller(s) ==
  LET starts == {p \in 1..Len(s) :
                   /\ \E pat \in FillerPhrases : MatchAtCI(s, p, pat)
                   /\ \A j \in p..Len(s) : s[j] # "\n"}
  IN  IF starts = {} THEN s
      ELSE LET p    == CHOOSE q \in starts : \A r \in starts : q <= r
               head == TakeFirst(s, p - 1)
           IN  TakeFirst(head, Len(head) - TrailSpaces(head))

\* s.replace(/\s*\?+$/, "")
StripQuestionMarks(s) ==
  LET k == IF \E i \in 1..Len(s) : s[i] # "?"
           THEN Len(s) - (CHOOSE i \in 1..Len(s) : s[i] # "?" /\ \A j \in (i+1)..Len(s) : s[j] = "?")
           ELSE Len(s)
  IN  IF k = 0 THEN s
      ELSE LET head == TakeFirst(s, Len(s) - k)
           IN  TakeFirst(head, Len(head) - TrailSpaces(head))

\* Option values: <<>> is null/undefined, <<v>> is the value v
None == <<>>
Some(v) == <<v>>

\* the heuristic without its length test
extractTopicFromPromptAnyLength(prompt) ==
  LET topic == trim(StripQuestionMarks(StripTrailingFiller(StripQuestionPrefix(prompt))))
  IN  Some([subject |-> <<"G","e","n","e","r","a","l">>, topic |-> topic])

\* Chat.extractTopicFromPrompt
extractTopicFromPrompt(prompt) ==
  LET topic == trim(StripQuestionMarks(StripTrailingFiller(StripQuestionPrefix(prompt))))
  IN  IF Len(topic) < 2 THEN None
      ELSE Some([subject |-> <<"G","e","n","e","r","a","l">>, topic |-> topic])

\* step.replace(/^Step \d+:\s*/i, '') of outputCombinedResult
cleanStep(step) ==
  LET digits == IF Len(step) >= 5 /\ MatchAtCI(step, 1, <<"s","t","e","p"," ">>)
                THEN (IF \E i \in 6..Len(step) : ~IsDigit(step[i])
                      THEN (CHOOSE i \in 6..Len(step) : ~IsDigit(step[i]) /\ \A j \in 6..(i-1) : IsDigit(step[j])) - 6
                      ELSE Len(step) - 5)
                ELSE 0
  IN  IF digits >= 1 /\ Len(step) >= 6 + digits /\ step[6 + digits] = ":"
      THEN LET rest == DropFirst(step, 6 + digits)
           IN  DropFirst(rest, LeadSpaces(rest))
      ELSE step


\* String.prototype.toUpperCase on one character
upper(c) ==
  IF \E i \in 1..26 : LowerChars[i] = c
  THEN UpperChars[CHOOSE i \in 1..26 : LowerChars[i] = c]
  ELSE c

\* a first word that keeps the case of the reply
FirstWordAsIs(raw) ==
  LET t == trim(raw)
      n == IF \E i \in 1..Len(t) : IsSpace(t[i])
           THEN (CHOOSE i \in 1..Len(t) : IsSpace(t[i]) /\ \A j \in 1..(i-1) : ~IsSpace(t[j])) - 1
           ELSE Len(t)
  IN  [i \in 1..n |-> t[i]]

\* raw.trim().toUpperCase().split(/\s+/)[0] of classifyIntent
FirstWordUpper(raw) ==
  LET t == trim(raw)
      n == IF \E i \in 1..Len(t) : IsSpace(t[i])
           THEN (CHOOSE i \in 1..Len(t) : IsSpace(t[i]) /\ \A j \in 1..(i-1) : ~IsSpace(t[j])) - 1
           ELSE Len(t)
  IN  [i \in 1..n |-> upper(t[i])]

\* ------------------------------------------------------------- JS arrays
\* the text a template literal prints for an array hole or a missing slot
Undefined == <<"undefined">>

\* arr[k] for a 0-based k: None when k is outside the array
ArrayGet(arr, k) == IF k \in 0..(Len(arr) - 1) THEN Some(arr[k + 1]) ELSE None

\* arr[k] = v for a 0-based k: a write past the end lengthens the array
ArraySet(arr, k, v) ==
  IF k < Len(arr) THEN [arr EXCEPT ![k + 1] = v]
  ELSE arr \o [i \in 1..(k - Len(arr)) |-> Undefined] \o <<v>>

\* arr.slice(0, n)
Slice(arr, n) == SubSeq(arr, 1, IF Len(arr) < n THEN Len(arr) ELSE n)

\* new Array(n).fill("")
FillEmpty(n) == [i \in 1..n |-> <<>>]

\* ---------------------------------------------------------- input domains
PromptExplain == <<"e","x","p","l","a","i","n"," ","i","o">>
PromptBare == <<"w","h","a","t"," ","i","s","?">>
PromptBlank == <<" ">>
Prompts == {<<>>, PromptBlank, PromptExplain, PromptBare}

StepNumbered == <<"S","t","e","p"," ","1",":"," ","a">>
StepTexts == {<<>>, StepNumbered}

RECURSIVE SeqsUpTo(_, _)
\* all sequences over S of length 0..n
SeqsUpTo(S, n) ==
  IF n = 0 THEN {<<>>}
  ELSE LET shorter == SeqsUpTo(S, n - 1)
       IN  shorter \cup {Append(q, x) : q \in {r \in shorter : Len(r) = n - 1}, x \in S}

\* replies of the classification call (ok = FALSE: the call rejects)
ClassifierOutcomes ==
  { [ok |-> FALSE, raw |-> <<>>],
    [ok |-> TRUE,  raw |-> <<>>],
    [ok |-> TRUE,  raw |-> <<" ","l","e","a","r","n","i","n","g"," ","x">>],
    [ok |-> TRUE,  raw |-> <<"L","E","A","R","N","I","N","G",".">>],
    [ok |-> TRUE,  raw |-> <<"L","e","a","r","n","i","n","g","\t","o","k">>],
    [ok |-> TRUE,  raw |-> <<"n","o"," ","L","E","A","R","N","I","N","G">>],
    [ok |-> TRUE,  raw |-> <<"C","O","N","V","E","R","S","A","T","I","O","N","A","L">>] }

\* results of the plan-generation call: an array in result.response, a text
\* (from which an array can be parsed or not), or another shape
PlanOutcomes ==
  {[shape |-> "array", parses |-> TRUE, steps |-> q] : q \in SeqsUpTo(StepTexts, MaxPlan)}
    \cup {[shape |-> "text",  parses |-> FALSE, steps |-> <<>>],
          [shape |-> "text",  parses |-> TRUE,  steps |-> <<StepNumbered, StepNumbered>>],
          [shape |-> "other", parses |-> FALSE, steps |-> <<>>]}

\* results of the step call: {response: "r"}
StepOutcomes ==
  { [shape |-> "response", text |-> <<"r">>] }

\* replies of the topic-inference call: a JSON object with padded fields,
\* a reply without braces, or a rejected call
TagOutcomes ==
  { [ok |-> FALSE, json |-> None],
    [ok |-> TRUE,  json |-> None],
    [ok |-> TRUE,  json |-> Some([subject |-> <<"C","S">>, topic |-> <<" ","i","o"," ">>])] }

\* a subject and a topic, as the tools and the tagging write them
SubjectCS == <<"C","S">>
TopicIO == <<"i","o">>

\* an input of recordQuiz: ten questions, five of them right
QuizInput(topic, score, missed, type) ==
  [subject |-> SubjectCS, topic |-> topic, quizType |-> type, score |-> score,
   totalQuestions |-> 10, correctAnswers |-> 5, missedConcepts |-> missed,
   timeSpentSeconds |-> None, hintsUsed |-> None]

\* quizzes on one topic with every score
ScoreInputs ==
  {QuizInput(Some(TopicIO), s, <<>>, "mixed") : s \in 0..100}

\* inputs of the recordQuizResult tool: with and without topic, scores in
\* and out of range, missed concepts with a repeated label, a wrong type,
\* the empty string as topic
QuizInputs ==
  {QuizInput(t, s, m, "mixed") :
      t \in {None, Some(TopicIO)}, s \in {36, 101}, m \in {<<>>, <<"x","x">>}}
    \cup {QuizInput(Some(TopicIO), 36, <<>>, "oral")}
    \cup {QuizInput(Some(<<>>), 36, <<>>, "mixed")}

\* inputs of the updateKnowledge tool: percentages absent, in and out of
\* range, the empty string as topic
ToolInputs ==
  {[subject |-> SubjectCS, topic |-> TopicIO, masteryLevel |-> m, confidence |-> c,
    incrementStudyCount |-> inc, weakAreas |-> None, notes |-> None] :
      m \in {None, Some(-1), Some(1), Some(101)},
      c \in {None, Some(100), Some(101)},
      inc \in BOOLEAN}
    \cup {[subject |-> SubjectCS, topic |-> <<>>, masteryLevel |-> None, confidence |-> None,
           incrementStudyCount |-> FALSE, weakAreas |-> None, notes |-> None]}

\* tags of the combiner: from the AI reply and from the heuristic
TagInfos ==
  { [subject |-> SubjectCS, topic |-> TopicIO],
    [subject |-> <<"G","e","n","e","r","a","l">>, topic |-> TopicIO] }

\* the k-th topic name
TopicName(k) == <<<<"a","b","c","d","e","f">>[k]>>

\* inputs of the updateKnowledge tool on both sides of the weak-area limits
WeakAreaInputs ==
  {[subject |-> SubjectCS, topic |-> TopicName(k), masteryLevel |-> Some(mc[1]),
    confidence |-> Some(mc[2]), incrementStudyCount |-> FALSE,
    weakAreas |-> None, notes |-> None] :
      k \in 1..MaxTopics, mc \in {<<59,90>>, <<60,49>>, <<60,50>>}}

\* the limit argument of the getWeakAreas tool: absent, or a count
LimitInputs == {None, Some(0), Some(1), Some(2)}

\* an input of updateSessionPreferences
PreferenceInput(goal, examDepth, quizType, learnTopic) ==
  [goal |-> goal, learnTopic |-> learnTopic, learnConcept |-> None, examName |-> None,
   examDepth |-> examDepth, examTimeLeft |-> None, quizTopic |-> None,
   quizNumQuestions |-> None, quizType |-> quizType, quizHintsAllowed |-> None,
   onboardingComplete |-> None]

\* inputs of updateSessionPreferences: each enumerated field absent, valid
\* and invalid, alone and together with the others
PreferenceInputs ==
  {PreferenceInput(g, d, q, t) :
      g \in {None, Some("learn"), Some("study")},
      d \in {None, Some("deep"), Some("full")},
      q \in {None, Some("oral")},
      t \in {Some(TopicIO)}}

\* inputs of the updateUserProfile tool
ProfileInputs ==
  {[name |-> n, major |-> None, year |-> None, preferredLearningMethods |-> None] :
      n \in {None, Some(<<"A">>)}}

\* session types given to startSession: one of the enum, one not
SessionTypeInputs == {"learn", "nap"}

\* a quiz with a valid type, and one with a type that is not of the enum
TypedQuizInputs ==
  {QuizInput(Some(TopicIO), 36, <<"x">>, "mixed"), QuizInput(Some(TopicIO), 36, <<>>, "oral")}

\* reset types given to resetProgress: the four of the enum, one not
ResetTypeInputs == {"all", "knowledge", "quizzes", "sessions", "everything"}

\* another subject
SubjectMath == <<"M","a","t","h">>

\* the subject argument of getQuizStats: absent, the empty string, a
\* subject with quizzes, a subject without
SubjectFilters == {None, Some(<<>>), Some(SubjectCS), Some(SubjectMath)}

\* quizzes without a topic: one that missed a concept, one that missed none
LedgerInputs ==
  {QuizInput(None, 36, <<"x">>, "mixed"), QuizInput(None, 100, <<>>, "mixed")}

\* ------------------------------------------------------------------ state
VARIABLES
  planSteps,        \* Chat.planSteps
  stepResults,      \* Chat.stepResults
  originalPrompt,   \* Chat.originalPrompt
  isProcessingPlan, \* Chat.isProcessingPlan
  messages,         \* this.messages (persisted by the chat base class)
  schedules,        \* rows of the durable scheduler: the k of each PLAN_STEP:k
  knowledge,        \* rows of the knowledge table, in insertion order
  chat,             \* position of the onChatMessage call in flight
  task,             \* position of the executeTask call in flight
  written,          \* history: slots written since the plan was stored
  sent,             \* history: user messages received
  restarts,         \* history: restarts of the Durable Object
  quizHistory,      \* rows of the quiz_history table, in insertion order
  studySessions,    \* rows of the study_sessions table, in insertion order
  sessionSeq,       \* the last id AUTOINCREMENT gave to a study session
  userProfile,      \* the row of user_profile with id 1, if there is one
  sessionPreferences, \* the row of session_preferences with id 1, if there is one
  returned          \* what the last call of a tool or of a query returned

vars == <<planSteps, stepResults, originalPrompt, isProcessingPlan, messages,
          schedules, knowledge, chat, task, written, sent, restarts, quizHistory,
          studySessions, sessionSeq, userProfile, sessionPreferences, returned>>

\* the tables that neither the plan nor a quiz writes
otherTables == <<studySessions, sessionSeq, userProfile, sessionPreferences>>

\* the plan, the conversation and the scheduler
orchestration == <<planSteps, stepResults, originalPrompt, isProcessingPlan, messages,
                   schedules, chat, task, written, sent, restarts>>

\* a returned value: what kind of value it is, and the value
Returned(kind, value) == [kind |-> kind, value |-> value]

planFields == <<planSteps, stepResults, originalPrompt, isProcessingPlan>>

ChatIdle == [pc |-> "idle", prompt |-> <<>>, plan |-> <<>>]
TaskIdle == [pc |-> "idle", row |-> 0, idx |-> 0, step |-> <<>>,
             combined |-> <<>>, tracking |-> <<>>]

\* a UI message: role, kind of text, and the parts the text is built from
Msg(role, kind, text, steps, sections, tracking) ==
  [role |-> role, kind |-> kind, text |-> text, steps |-> steps,
   sections |-> sections, tracking |-> tracking]

\* ------------------------------------------------------- pure functions
Learning == <<"L","E","A","R","N","I","N","G">>

\* a classifier that calls the service for every prompt
ClassifierCalledAlways(prompt) == TRUE

\* classifyIntent makes its inference call only for a non-blank prompt
ClassifierCalled(prompt) == Len(trim(prompt)) # 0

\* Chat.classifyIntent, given the outcome of its inference call
classifyIntent(prompt, outcome) ==
  IF Len(trim(prompt)) = 0 THEN "CONVERSATIONAL"
  ELSE IF ~outcome.ok THEN "CONVERSATIONAL"
  ELSE IF FirstWordUpper(outcome.raw) = Learning THEN "LEARNING"
  ELSE "CONVERSATIONAL"

PlanCap == 10

\* Chat.parseStepsFromString: parses tells whether an array can be parsed
\* from the text (directly or from its first bracketed part)
parseStepsFromString(outcome, fallbackPrompt) ==
  IF outcome.parses THEN Slice(outcome.steps, PlanCap) ELSE <<fallbackPrompt>>

\* Chat.generatePlan, given the result of its inference call
generatePlan(outcome, prompt) ==
  IF outcome.shape = "array" THEN Slice(outcome.steps, PlanCap)
  ELSE IF outcome.shape = "text" THEN parseStepsFromString(outcome, prompt)
  ELSE <<prompt>>

\* Chat.processStep: the text taken from the result of the inference call
processStep(outcome) ==
  IF outcome.shape \in {"string", "response", "result", "text"} THEN outcome.text
  ELSE <<"{","}">>

\* Chat.inferSubjectTopicFromAI, given the outcome of its inference call
inferSubjectTopicFromAI(outcome) ==
  IF ~outcome.ok \/ outcome.json = None THEN None
  ELSE Some([subject |-> trim(outcome.json[1].subject),
             topic   |-> trim(outcome.json[1].topic)])

\* value of an optional argument, or its default
OrElse(opt, dflt) == IF opt = None THEN dflt ELSE opt[1]

\* the row of the knowledge table inserted by updateKnowledge
NewKnowledgeRow(data, now) ==
  [subject       |-> data.subject,
   topic         |-> data.topic,
   mastery_level |-> OrElse(data.masteryLevel, 0),
   confidence    |-> OrElse(data.confidence, 0),
   times_studied |-> OrElse(data.timesStudied, 0),
   times_quizzed |-> OrElse(data.timesQuizzed, 0),
   last_studied  |-> IF data.lastStudied THEN Some(now) ELSE None,
   last_quizzed  |-> IF data.lastQuizzed THEN Some(now) ELSE None,
   weak_areas    |-> data.weakAreas,
   notes         |-> data.notes]

\* an update that writes the whole row anew, defaults for what is absent
UpdatedKnowledgeRowReplaces(row, data, now) ==
  NewKnowledgeRow(data, now)

\* the UPDATE statements of updateKnowledge applied to one matching row
UpdatedKnowledgeRow(row, data, now) ==
  [row EXCEPT
     !.mastery_level = OrElse(data.masteryLevel, @),
     !.confidence    = OrElse(data.confidence, @),
     !.times_studied = OrElse(data.timesStudied, @),
     !.times_quizzed = OrElse(data.timesQuizzed, @),
     !.last_studied  = IF data.lastStudied THEN Some(now) ELSE @,
     !.last_quizzed  = IF data.lastQuizzed THEN Some(now) ELSE @,
     !.weak_areas    = IF data.weakAreas # None THEN data.weakAreas ELSE @,
     !.notes         = IF data.notes # None THEN data.notes ELSE @]

\* Chat.getTopicMastery: does a row exist for (subject, topic)
HasTopic(kn, subject, topic) ==
  \E i \in 1..Len(kn) : kn[i].subject = subject /\ kn[i].topic = topic

\* an upsert that inserts without looking for the entry
updateKnowledgeInsertOnly(kn, data, now) ==
  Append(kn, NewKnowledgeRow(data, now))

\* Chat.updateKnowledge on the table kn
updateKnowledge(kn, data, now) ==
  IF ~HasTopic(kn, data.subject, data.topic)
  THEN Append(kn, NewKnowledgeRow(data, now))
  ELSE [i \in 1..Len(kn) |->
          IF kn[i].subject = data.subject /\ kn[i].topic = data.topic
          THEN UpdatedKnowledgeRow(kn[i], data, now)
          ELSE kn[i]]

\* an upsert that leaves the mastery as it was
LearnedDataKeepsMastery(topicInfo, nSteps) ==
  [subject |-> topicInfo.subject, topic |-> topicInfo.topic,
   masteryLevel |-> None, confidence |-> None,
   timesStudied |-> None, timesQuizzed |-> None,
   lastStudied |-> TRUE, lastQuizzed |-> FALSE,
   weakAreas |-> None, notes |-> Some([learnedVia |-> nSteps])]

\* the argument of the updateKnowledge call of outputCombinedResult
LearnedData(topicInfo, nSteps) ==
  [subject |-> topicInfo.subject, topic |-> topicInfo.topic,
   masteryLevel |-> Some(50), confidence |-> None,
   timesStudied |-> None, timesQuizzed |-> None,
   lastStudied |-> TRUE, lastQuizzed |-> FALSE,
   weakAreas |-> None, notes |-> Some([learnedVia |-> nSteps])]

\* the sections of the combined document: one heading and result per step
CombinedSections(steps, results) ==
  [i \in 1..Len(steps) |->
     [heading |-> cleanStep(steps[i]),
      body    |-> OrElse(ArrayGet(results, i - 1), Undefined)]]

\* new Date(): a logical clock, the number of messages saved so far
Now == Len(messages)

\* the row that ends when its callback returns or throws
RemoveAt(q, i) == SubSeq(q, 1, i - 1) \o SubSeq(q, i + 1, Len(q))

\* ------------------------------------------------------- quiz and knowledge
\* values of the QuizType enum
QuizTypes == {"multiple_choice", "free_response", "mixed"}

\* lower and upper end of the percentages (score, mastery, confidence)
MinPercent == 0
MaxPercent == 100

\* CHECK(x >= 0 AND x <= 100) of the knowledge and quiz_history tables
CheckPercent(v) == v >= MinPercent /\ v <= MaxPercent

\* z.number().min(0).max(100) of the tool schemas
SchemaPercent(v) == v >= MinPercent /\ v <= MaxPercent

\* The pairs (prior, score) in 0..100 for which the double-precision value
\* of (prior * 0.7) + (score * 0.3) lies just under a half-integer that the
\* exact sum (7*prior + 3*score)/10 reaches: 0.7 and 0.3 have no exact
\* binary representation, their doubles are a little smaller.
TieRoundedDown ==
  { <<1,36>>, <<1,46>>, <<1,96>>, <<2,57>>, <<2,67>>, <<2,77>>, <<2,87>>,
    <<2,97>>, <<3,18>>, <<6,1>>, <<6,11>>, <<6,31>>, <<7,2>>, <<7,62>>,
    <<7,72>>, <<7,82>>, <<12,7>>, <<12,17>>, <<12,57>>, <<12,67>>, <<12,77>>,
    <<14,9>>, <<17,2>>, <<17,12>>, <<17,62>>, <<19,4>>, <<23,8>>, <<23,18>>,
    <<23,48>>, <<24,9>>, <<24,19>>, <<24,29>>, <<24,39>>, <<24,49>>,
    <<28,3>>, <<28,13>>, <<28,23>>, <<29,4>>, <<29,14>>, <<29,24>>,
    <<29,34>>, <<33,8>>, <<33,18>>, <<34,9>>, <<34,19>>, <<38,3>>, <<38,13>>,
    <<39,4>>, <<39,14>>, <<45,0>>, <<46,1>>, <<46,11>>, <<46,21>>, <<46,31>>,
    <<46,41>>, <<46,51>>, <<48,3>>, <<48,13>>, <<48,23>>, <<48,33>>,
    <<48,43>>, <<48,53>>, <<48,63>>, <<48,73>>, <<48,83>>, <<48,93>>,
    <<51,6>>, <<51,16>>, <<51,26>>, <<51,36>>, <<51,46>>, <<53,8>>,
    <<53,18>>, <<53,28>>, <<53,38>>, <<53,48>>, <<53,58>>, <<53,68>>,
    <<53,78>>, <<53,88>>, <<56,1>>, <<56,11>>, <<56,21>>, <<56,31>>,
    <<56,41>>, <<56,51>>, <<58,3>>, <<58,13>>, <<58,23>>, <<58,33>>,
    <<58,43>>, <<58,53>>, <<58,63>>, <<58,73>>, <<61,6>>, <<61,16>>,
    <<61,26>>, <<61,36>>, <<61,46>>, <<63,8>>, <<63,18>>, <<63,28>>,
    <<63,38>>, <<63,48>>, <<63,58>>, <<66,1>>, <<66,11>>, <<66,21>>,
    <<66,31>>, <<66,41>>, <<66,51>>, <<68,3>>, <<68,13>>, <<68,23>>,
    <<68,33>>, <<68,43>>, <<68,53>>, <<71,6>>, <<71,16>>, <<71,26>>,
    <<71,36>>, <<71,46>>, <<73,8>>, <<73,18>>, <<73,28>>, <<73,38>>,
    <<76,1>>, <<76,11>>, <<76,21>>, <<76,31>>, <<78,3>>, <<78,13>>,
    <<78,23>>, <<81,6>>, <<81,16>>, <<83,8>>, <<83,18>>, <<85,0>>, <<85,10>>,
    <<86,1>>, <<86,11>>, <<88,3>>, <<92,7>>, <<92,17>>, <<92,27>>, <<92,37>>,
    <<92,47>>, <<92,57>>, <<92,67>>, <<92,77>>, <<92,87>>, <<92,97>>,
    <<96,1>>, <<96,11>>, <<96,21>>, <<96,31>>, <<96,41>>, <<96,51>>,
    <<96,61>>, <<96,71>>, <<96,81>>, <<96,91>>, <<97,2>>, <<97,12>>,
    <<97,22>>, <<97,32>>, <<97,42>>, <<97,52>>, <<97,62>>, <<97,72>>,
    <<97,82>>, <<97,92>> }

\* a weighting in which the score counts too little
RoundWeightedLight(prior, score) == (7 * prior + 2 * score + 5) \div 10

\* Math.round((prior * 0.7) + (score * 0.3)) in IEEE-754 double arithmetic:
\* the nearest integer of the exact sum, halves upward, except at the pairs
\* above, where the computed sum is under the half and is rounded down
RoundWeighted(prior, score) ==
  LET nearest == (7 * prior + 3 * score + 5) \div 10
  IN  IF <<prior, score>> \in TieRoundedDown THEN nearest - 1 ELSE nearest

\* Math.min(100, Math.max(0, v))
Clamp(v) ==
  LET lo == IF v < MinPercent THEN MinPercent ELSE v
  IN  IF lo > MaxPercent THEN MaxPercent ELSE lo

RECURSIVE UniqueInOrder(_)
\* [...new Set(arr)]: the first occurrence of each element, in order
UniqueInOrder(arr) ==
  IF arr = <<>> THEN <<>>
  ELSE LET head == UniqueInOrder(SubSeq(arr, 1, Len(arr) - 1))
           last == arr[Len(arr)]
       IN  IF \E i \in 1..Len(head) : head[i] = last THEN head ELSE Append(head, last)

\* Chat.getTopicMastery: the row for (subject, topic), or null
getTopicMastery(kn, subject, topic) ==
  IF HasTopic(kn, subject, topic)
  THEN Some(kn[CHOOSE i \in 1..Len(kn) : kn[i].subject = subject /\ kn[i].topic = topic])
  ELSE None

\* the row recordQuiz inserts into quiz_history
QuizRow(data) ==
  [subject            |-> data.subject,
   topic              |-> data.topic,
   quiz_type          |-> data.quizType,
   score              |-> data.score,
   total_questions    |-> data.totalQuestions,
   correct_answers    |-> data.correctAnswers,
   missed_concepts    |-> IF Len(data.missedConcepts) > 0 THEN Some(data.missedConcepts) ELSE None,
   time_spent_seconds |-> data.timeSpentSeconds,
   hints_used         |-> OrElse(data.hintsUsed, 0)]

\* the argument of the updateKnowledge call of recordQuiz for an entry that
\* exists: weighted mastery, one more quiz, merged weak areas
QuizUpdateData(existing, data) ==
  [subject |-> data.subject, topic |-> data.topic[1],
   masteryLevel |-> Some(Clamp(RoundWeighted(existing.mastery_level, data.score))),
   confidence |-> None,
   timesStudied |-> None,
   timesQuizzed |-> Some(existing.times_quizzed + 1),
   lastStudied |-> FALSE, lastQuizzed |-> TRUE,
   weakAreas |-> Some(UniqueInOrder(OrElse(existing.weak_areas, <<>>) \o data.missedConcepts)),
   notes |-> None]

\* the argument of the updateKnowledge call of recordQuiz for a new entry
QuizCreateData(data) ==
  [subject |-> data.subject, topic |-> data.topic[1],
   masteryLevel |-> Some(data.score),
   confidence |-> None,
   timesStudied |-> None,
   timesQuizzed |-> Some(1),
   lastStudied |-> FALSE, lastQuizzed |-> TRUE,
   weakAreas |-> Some(data.missedConcepts),
   notes |-> None]

\* the statements of recordQuiz up to the INSERT run without an error: the
\* quiz type is one of the enum and the CHECKs of quiz_history hold
QuizAccepted(data) ==
  /\ data.quizType \in QuizTypes
  /\ CheckPercent(data.score)

\* `if (data.topic)`: a topic is given and is not the empty string
QuizHasTopic(data) == data.topic # None /\ data.topic[1] # <<>>

\* a quiz bookkeeping that writes an entry for every quiz, under the empty
\* topic when the quiz has none
QuizKnowledgeForEveryQuiz(kn, data, now) ==
  updateKnowledge(kn, QuizCreateData([data EXCEPT !.topic = Some(OrElse(data.topic, <<>>))]), now)

\* the knowledge table after recordQuiz
QuizKnowledge(kn, data, now) ==
  IF ~QuizHasTopic(data) THEN kn
  ELSE LET existing == getTopicMastery(kn, data.subject, data.topic[1])
       IN  IF existing # None
           THEN updateKnowledge(kn, QuizUpdateData(existing[1], data), now)
           ELSE updateKnowledge(kn, QuizCreateData(data), now)

\* Chat.updateKnowledge against the CHECKs of the knowledge table: an INSERT
\* that violates one throws; of the UPDATE statements, which run one by one,
\* the first that violates one throws and the later ones do not run
CheckedUpdateKnowledge(kn, data, now) ==
  LET mOK == CheckPercent(OrElse(data.masteryLevel, MinPercent))
      cOK == CheckPercent(OrElse(data.confidence, MinPercent))
  IN  IF ~HasTopic(kn, data.subject, data.topic)
      THEN (IF mOK /\ cOK THEN updateKnowledge(kn, data, now) ELSE kn)
      ELSE IF ~mOK THEN kn
      ELSE IF ~cOK
           THEN updateKnowledge(kn, [subject |-> data.subject, topic |-> data.topic,
                                     masteryLevel |-> data.masteryLevel, confidence |-> None,
                                     timesStudied |-> None, timesQuizzed |-> None,
                                     lastStudied |-> FALSE, lastQuizzed |-> FALSE,
                                     weakAreas |-> None, notes |-> None], now)
           ELSE updateKnowledge(kn, data, now)

\* the inputSchema of the updateKnowledge tool accepts the input
UpdateKnowledgeSchema(input) ==
  /\ input.masteryLevel # None => SchemaPercent(input.masteryLevel[1])
  /\ input.confidence # None => SchemaPercent(input.confidence[1])

\* the argument the updateKnowledge tool passes to Chat.updateKnowledge
ToolUpdateData(input) ==
  [subject |-> input.subject, topic |-> input.topic,
   masteryLevel |-> input.masteryLevel,
   confidence |-> input.confidence,
   timesStudied |-> IF input.incrementStudyCount THEN Some(1) ELSE None,
   timesQuizzed |-> None,
   lastStudied |-> input.incrementStudyCount, lastQuizzed |-> FALSE,
   weakAreas |-> input.weakAreas,
   notes |-> input.notes]

\* the inputSchema of the recordQuizResult tool accepts the input
RecordQuizSchema(input) ==
  /\ input.quizType \in QuizTypes
  /\ SchemaPercent(input.score)

\* the limits of the weak-area query and its default limit
WeakMastery == 60
WeakConfidence == 50
DefaultLimit == 10

\* a predicate that takes the limits themselves as weak
IsWeakInclusive(row) ==
  row.mastery_level <= WeakMastery \/ row.confidence <= WeakConfidence

\* WHERE mastery_level < 60 OR confidence < 50
IsWeak(row) ==
  row.mastery_level < WeakMastery \/ row.confidence < WeakConfidence

\* ORDER BY mastery_level ASC, confidence ASC: row a must come before row b
SortsBefore(a, b) ==
  \/ a.mastery_level < b.mastery_level
  \/ a.mastery_level = b.mastery_level /\ a.confidence < b.confidence

\* Chat.getWeakAreas: the results the query may give.  Rows with the same
\* mastery and confidence come in an order the query does not fix, and a
\* negative LIMIT is no limit.
getWeakAreas(kn, limit) ==
  LET weak  == {i \in 1..Len(kn) : IsWeak(kn[i])}
      n     == IF limit < 0 \/ limit > Cardinality(weak) THEN Cardinality(weak) ELSE limit
      picks == {f \in [1..n -> weak] :
                  /\ \A a, b \in 1..n : a < b => f[a] # f[b] /\ ~SortsBefore(kn[f[b]], kn[f[a]])
                  /\ \A i \in weak : (\A a \in 1..n : f[a] # i) =>
                        \A a \in 1..n : ~SortsBefore(kn[i], kn[f[a]])}
  IN  {[a \in 1..n |-> kn[f[a]]] : f \in picks}

\* the enums Goal, ExamDepth, SessionType and ResetType
Goals == {"learn", "exam", "quiz"}
ExamDepths == {"overview", "moderate", "deep"}
SessionTypes == {"learn", "review", "quiz", "exam_prep"}
ResetTypes == {"all", "knowledge", "quizzes", "sessions"}

\* a validation that looks at the goal only
PreferencesValidGoalOnly(data) ==
  data.goal # None => data.goal[1] \in Goals

\* the three validations at the head of updateSessionPreferences pass
PreferencesValid(data) ==
  /\ data.goal # None => data.goal[1] \in Goals
  /\ data.examDepth # None => data.examDepth[1] \in ExamDepths
  /\ data.quizType # None => data.quizType[1] \in QuizTypes

\* `if (data.x !== undefined) UPDATE ... SET x = data.x`
Supplied(opt, old) == IF opt # None THEN opt ELSE old

\* the row of session_preferences after the INSERT or the UPDATEs of
\* updateSessionPreferences; NULL is None
updateSessionPreferences(existing, data) ==
  IF existing = None
  THEN Some([goal |-> data.goal, learn_topic |-> data.learnTopic,
             learn_concept |-> data.learnConcept, exam_name |-> data.examName,
             exam_depth |-> data.examDepth, exam_time_left |-> data.examTimeLeft,
             quiz_topic |-> data.quizTopic, quiz_num_questions |-> data.quizNumQuestions,
             quiz_type |-> data.quizType, quiz_hints_allowed |-> data.quizHintsAllowed,
             onboarding_complete |-> Some(OrElse(data.onboardingComplete, FALSE))])
  ELSE LET row == existing[1]
       IN  Some([goal |-> Supplied(data.goal, row.goal),
                 learn_topic |-> Supplied(data.learnTopic, row.learn_topic),
                 learn_concept |-> Supplied(data.learnConcept, row.learn_concept),
                 exam_name |-> Supplied(data.examName, row.exam_name),
                 exam_depth |-> Supplied(data.examDepth, row.exam_depth),
                 exam_time_left |-> Supplied(data.examTimeLeft, row.exam_time_left),
                 quiz_topic |-> Supplied(data.quizTopic, row.quiz_topic),
                 quiz_num_questions |-> Supplied(data.quizNumQuestions, row.quiz_num_questions),
                 quiz_type |-> Supplied(data.quizType, row.quiz_type),
                 quiz_hints_allowed |-> Supplied(data.quizHintsAllowed, row.quiz_hints_allowed),
                 onboarding_complete |-> Supplied(data.onboardingComplete, row.onboarding_complete)])

\* the row of user_profile after updateUserProfile
updateUserProfile(existing, data, now) ==
  IF existing = None
  THEN Some([name |-> data.name, major |-> data.major, year |-> data.year,
             preferred_learning_methods |-> data.preferredLearningMethods,
             last_active |-> now])
  ELSE LET row == existing[1]
       IN  Some([name |-> Supplied(data.name, row.name),
                 major |-> Supplied(data.major, row.major),
                 year |-> Supplied(data.year, row.year),
                 preferred_learning_methods |->
                   Supplied(data.preferredLearningMethods, row.preferred_learning_methods),
                 last_active |-> now])

\* the row startSession inserts into study_sessions
SessionRow(id, sessionType, subject, topic) ==
  [id |-> id, session_type |-> sessionType, subject |-> subject, topic |-> topic,
   summary |-> None, ended_at |-> None]

\* the study_sessions table after the UPDATE of endSession
endSession(rows, sessionId, summary, now) ==
  [i \in 1..Len(rows) |->
     IF rows[i].id = sessionId
     THEN [rows[i] EXCEPT !.summary = Some(summary), !.ended_at = Some(now)]
     ELSE rows[i]]

\* a reset that deletes every table whatever its type
ResetDeletesAny(resetType, table) == TRUE

\* a scope test by which every valid reset also empties the quiz ledger
ResetDeletesLedgerToo(resetType, table) ==
  \/ resetType = "all"
  \/ table = "quiz_history"
  \/ resetType = "knowledge" /\ table = "knowledge"
  \/ resetType = "sessions" /\ table = "study_sessions"

\* the DELETE statements of resetProgress: which table a reset type empties
ResetDeletes(resetType, table) ==
  \/ resetType = "all"
  \/ resetType = "knowledge" /\ table = "knowledge"
  \/ resetType = "quizzes" /\ table = "quiz_history"
  \/ resetType = "sessions" /\ table = "study_sessions"

\* a gate that lets every call through
ResetGateOpen(userConfirmed) == TRUE

\* `if (!userConfirmed) return RESET_CANCELLED_MESSAGE` lets the call through
ResetGate(userConfirmed) == userConfirmed

\* ------------------------------------------------------- quiz statistics
\* the LIMITs of the two queries of getQuizStats and the length of its list
\* of concepts
RecentLimit == 5
MissedLimit == 10
TopConcepts == 5

RECURSIVE SumOf(_, _)
\* SUM(column) over rows
SumOf(rows, column) ==
  IF rows = <<>> THEN 0
  ELSE rows[1][column] + SumOf(SubSeq(rows, 2, Len(rows)), column)

\* MAX(score) and MIN(score) over rows that are not empty
MaxScore(rows) ==
  CHOOSE v \in {rows[i].score : i \in 1..Len(rows)} : \A i \in 1..Len(rows) : rows[i].score <= v
MinScore(rows) ==
  CHOOSE v \in {rows[i].score : i \in 1..Len(rows)} : \A i \in 1..Len(rows) : rows[i].score >= v

\* Math.round of AVG(score) for scores that are natural numbers
RoundedAverage(rows) == (2 * SumOf(rows, "score") + Len(rows)) \div (2 * Len(rows))

\* the rows in reverse order
Reversed(rows) == [i \in 1..Len(rows) |-> rows[Len(rows) + 1 - i]]

\* a filter that lets every record through
OfSubjectAny(row, subject) == TRUE

\* `if (subject) ... WHERE subject = ${subject}`: the record passes the filter
OfSubject(row, subject) ==
  subject = None \/ subject[1] = <<>> \/ row.subject = subject[1]

\* WHERE [subject = ...] ORDER BY quiz_date DESC: the records of the subject,
\* newest first; the date order is the insertion order
NewestFirst(ledger, subject) ==
  Reversed(SelectSeq(ledger, LAMBDA row : OfSubject(row, subject)))

\* ... AND missed_concepts IS NOT NULL
WithMissed(rows) == SelectSeq(rows, LAMBDA row : row.missed_concepts # None)

RECURSIVE Concepts(_)
\* the concepts of the rows in the order the two loops meet them
Concepts(rows) ==
  IF rows = <<>> THEN <<>>
  ELSE rows[1].missed_concepts[1] \o Concepts(SubSeq(rows, 2, Len(rows)))

\* conceptCounts[concept] after the loops
CountOf(concepts, concept) ==
  Cardinality({i \in 1..Len(concepts) : concepts[i] = concept})

\* a property key that is an array index; the concepts of the model are
\* single characters, of which the digits are such keys
IsIndexKey(key) == IsDigit(key)

\* the number an index key stands for
IndexValue(key) ==
  CHOOSE d \in 0..9 : <<"0","1","2","3","4","5","6","7","8","9">>[d + 1] = key

RECURSIVE Ascending(_)
\* the index keys of a set in ascending order
Ascending(keys) ==
  IF keys = {} THEN <<>>
  ELSE LET least == CHOOSE k \in keys : \A o \in keys : IndexValue(k) <= IndexValue(o)
       IN  <<least>> \o Ascending(keys \ {least})

\* the keys of Object.entries(conceptCounts): index keys first, ascending,
\* then the other keys in the order they were added
EntriesOrder(concepts) ==
  LET added == UniqueInOrder(concepts)
  IN  Ascending({added[i] : i \in {j \in 1..Len(added) : IsIndexKey(added[j])}})
        \o SelectSeq(added, LAMBDA k : ~IsIndexKey(k))

RECURSIVE SortByCount(_, _)
\* entries.sort((a, b) => b[1] - a[1]): by descending count, and stable
SortByCount(keys, concepts) ==
  IF keys = <<>> THEN <<>>
  ELSE LET front == SortByCount(SubSeq(keys, 1, Len(keys) - 1), concepts)
           last  == keys[Len(keys)]
           ahead == {i \in 1..Len(front) :
                       CountOf(concepts, front[i]) >= CountOf(concepts, last)}
           n     == Cardinality(ahead)
       IN  SubSeq(front, 1, n) \o <<last>> \o SubSeq(front, n + 1, Len(front))

\* Chat.getQuizStats
getQuizStats(ledger, subject) ==
  LET rows     == NewestFirst(ledger, subject)
      concepts == Concepts(Slice(WithMissed(rows), MissedLimit))
  IN  [totalQuizzes       |-> Len(rows),
       averageScore       |-> IF rows = <<>> THEN 0 ELSE RoundedAverage(rows),
       totalQuestions     |-> SumOf(rows, "total_questions"),
       totalCorrect       |-> SumOf(rows, "correct_answers"),
       bestScore          |-> IF rows = <<>> THEN 0 ELSE MaxScore(rows),
       worstScore         |-> IF rows = <<>> THEN 0 ELSE MinScore(rows),
       recentScores       |-> [i \in 1..Len(Slice(rows, RecentLimit)) |-> rows[i].score],
       mostMissedConcepts |-> Slice(SortByCount(EntriesOrder(concepts), concepts), TopConcepts)]

\* ------------------------------------------------------------------ Init
\* the initialisers of the plan fields of a new Chat instance
FieldInitialisers ==
  [planSteps |-> <<>>, stepResults |-> <<>>, originalPrompt |-> <<>>,
   isProcessingPlan |-> FALSE]

Init ==
  /\ planSteps = FieldInitialisers.planSteps
  /\ stepResults = FieldInitialisers.stepResults
  /\ originalPrompt = FieldInitialisers.originalPrompt
  /\ isProcessingPlan = FieldInitialisers.isProcessingPlan
  /\ messages = <<>>
  /\ schedules = <<>>
  /\ knowledge = <<>>
  /\ chat = ChatIdle
  /\ task = TaskIdle
  /\ written = {}
  /\ sent = 0
  /\ restarts = 0
  /\ quizHistory = <<>>
  /\ studySessions = <<>>
  /\ sessionSeq = 0
  /\ userProfile = None
  /\ sessionPreferences = None
  /\ returned = Returned("none", <<>>)

\* --------------------------------------------------------- onChatMessage
\* A user message arrives and onChatMessage runs up to its first await: the
\* role guard, the prompt extraction and the blank-prompt return of
\* classifyIntent.
UserSends(p) ==
  /\ sent < MaxUserMsgs
  /\ chat.pc = "idle"
  /\ sent' = sent + 1
  /\ messages' = Append(messages, Msg("user", "text", p, <<>>, <<>>, None))
  /\ LET userMessage == messages'[Len(messages')]
     IN  chat' = IF userMessage.role # "user" THEN ChatIdle
                 ELSE IF p = <<>> THEN [ChatIdle EXCEPT !.pc = "simple"]
                 ELSE IF ~ClassifierCalled(p) THEN [ChatIdle EXCEPT !.pc = "simple"]
                 ELSE [ChatIdle EXCEPT !.pc = "classify", !.prompt = p]
  /\ UNCHANGED <<planFields, schedules, knowledge, task, written, restarts, quizHistory, otherTables, returned>>

\* classifyIntent returns (its inference call answered or rejected)
ClassifyReturn(o) ==
  /\ chat.pc = "classify"
  /\ chat' = IF classifyIntent(chat.prompt, o) = "CONVERSATIONAL"
             THEN [chat EXCEPT !.pc = "simple"]
             ELSE [chat EXCEPT !.pc = "plan"]
  /\ UNCHANGED <<planFields, messages, schedules, knowledge, task, written, sent, restarts, quizHistory, otherTables, returned>>

\* a store whose result array is one slot short
StoredPlanShortResults(prompt, plan) ==
  [originalPrompt |-> prompt, planSteps |-> plan,
   stepResults |-> FillEmpty(Len(plan) - 1), isProcessingPlan |-> TRUE]

\* the plan state stored by onChatMessage for a multi-step plan
StoredPlan(prompt, plan) ==
  [originalPrompt |-> prompt, planSteps |-> plan,
   stepResults |-> FillEmpty(Len(plan)), isProcessingPlan |-> TRUE]

\* a test that sends only the empty plan to the single-turn path
SingleTurnPlanEmptyOnly(plan) == Len(plan) = 0

\* `plan.length <= 1` of onChatMessage: the plan is answered in one turn
SingleTurnPlan(plan) == Len(plan) <= 1

\* generatePlan returns: single-turn path for a plan of at most one step,
\* else the plan state is stored and saveMessages(acknowledgment) is awaited
PlanReturn(o) ==
  /\ chat.pc = "plan"
  /\ LET plan == generatePlan(o, chat.prompt)
     IN  IF SingleTurnPlan(plan)
         THEN /\ chat' = [chat EXCEPT !.pc = "simple"]
              /\ UNCHANGED <<planFields, written>>
         ELSE LET st == StoredPlan(chat.prompt, plan)
              IN  /\ originalPrompt' = st.originalPrompt
                  /\ planSteps' = st.planSteps
                  /\ stepResults' = st.stepResults
                  /\ isProcessingPlan' = st.isProcessingPlan
                  /\ written' = {}
                  /\ chat' = [chat EXCEPT !.pc = "saveAck", !.plan = plan]
  /\ UNCHANGED <<messages, schedules, knowledge, task, sent, restarts, quizHistory, otherTables, returned>>

\* the inference call of generatePlan rejects: onChatMessage rejects
PlanThrow ==
  /\ chat.pc = "plan"
  /\ chat' = ChatIdle
  /\ UNCHANGED <<planFields, messages, schedules, knowledge, task, written, sent, restarts, quizHistory, otherTables, returned>>

\* saveMessages appends the acknowledgment listing the steps of the plan
AckSaved ==
  /\ chat.pc = "saveAck"
  /\ messages' = Append(messages, Msg("assistant", "ack", <<>>, chat.plan, <<>>, None))
  /\ chat' = [chat EXCEPT !.pc = "schedule"]
  /\ UNCHANGED <<planFields, schedules, knowledge, task, written, sent, restarts, quizHistory, otherTables, returned>>

\* saveMessages rejects: onChatMessage rejects before it schedules
AckSaveThrow ==
  /\ chat.pc = "saveAck"
  /\ chat' = ChatIdle
  /\ UNCHANGED <<planFields, messages, schedules, knowledge, task, written, sent, restarts, quizHistory, otherTables, returned>>

\* this.schedule(0, "executeTask", "PLAN_STEP:0")
ScheduleFirst ==
  /\ chat.pc = "schedule"
  /\ schedules' = Append(schedules, 0)
  /\ chat' = ChatIdle
  /\ UNCHANGED <<planFields, messages, knowledge, task, written, sent, restarts, quizHistory, otherTables, returned>>

\* processSimpleQuestion: the streamed reply is appended when it finishes
SimpleReply ==
  /\ chat.pc = "simple"
  /\ messages' = Append(messages, Msg("assistant", "reply", <<>>, <<>>, <<>>, None))
  /\ chat' = ChatIdle
  /\ UNCHANGED <<planFields, schedules, knowledge, task, written, sent, restarts, quizHistory, otherTables, returned>>

\* ----------------------------------------------------------- executeTask
\* The rows hold the k of "PLAN_STEP:k": the description is written from a
\* non-negative integer and read back by parseInt(.., 10), which returns it.

\* !step of executeTask: the slot is missing or holds the empty string
NoStep(k) == ArrayGet(planSteps, k) = None \/ ArrayGet(planSteps, k) = Some(<<>>)

\* the scheduler runs row i and executeTask returns at `if (!step)`
ExecuteTaskDropRow(i) ==
  /\ task.pc = "idle"
  /\ i \in 1..Len(schedules)
  /\ NoStep(schedules[i])
  /\ schedules' = RemoveAt(schedules, i)
  /\ UNCHANGED <<planFields, messages, knowledge, chat, task, written, sent, restarts, quizHistory, otherTables, returned>>

\* a stale or empty continuation is dropped
ExecuteTaskDrop == \E i \in 1..Len(schedules) : ExecuteTaskDropRow(i)

\* the scheduler runs row i and executeTask awaits processStep(step, k)
ExecuteTaskBeginRow(i) ==
  /\ task.pc = "idle"
  /\ i \in 1..Len(schedules)
  /\ ~NoStep(schedules[i])
  /\ task' = [TaskIdle EXCEPT !.pc = "processStep", !.row = i, !.idx = schedules[i],
                              !.step = planSteps[schedules[i] + 1]]
  /\ UNCHANGED <<planFields, messages, schedules, knowledge, chat, written, sent, restarts, quizHistory, otherTables, returned>>

\* a continuation starts to process its step
ExecuteTaskBegin == \E i \in 1..Len(schedules) : ExecuteTaskBeginRow(i)

\* processStep returns: the result is written, then either the next step is
\* scheduled and the callback ends, or outputCombinedResult builds the
\* document and awaits inferSubjectTopicFromAI
ProcessStepReturn(o) ==
  /\ task.pc = "processStep"
  /\ stepResults' = ArraySet(stepResults, task.idx, processStep(o))
  /\ written' = written \cup {task.idx}
  /\ IF task.idx + 1 < Len(planSteps)
     THEN /\ schedules' = Append(RemoveAt(schedules, task.row), task.idx + 1)
          /\ task' = TaskIdle
     ELSE /\ schedules' = schedules
          /\ task' = [task EXCEPT !.pc = "inferTopic",
                                  !.combined = CombinedSections(planSteps, stepResults')]
  /\ UNCHANGED <<planSteps, originalPrompt, isProcessingPlan, messages, knowledge,
                 chat, sent, restarts, quizHistory, otherTables, returned>>

\* the inference call of processStep rejects: executeTask rejects, the
\* scheduler logs the error and deletes the row
ProcessStepThrow ==
  /\ task.pc = "processStep"
  /\ schedules' = RemoveAt(schedules, task.row)
  /\ task' = TaskIdle
  /\ UNCHANGED <<planFields, messages, knowledge, chat, written, sent, restarts, quizHistory, otherTables, returned>>

\* topicInfo of outputCombinedResult: the AI tag, else the heuristic one
TopicInfo(o) ==
  IF inferSubjectTopicFromAI(o) # None THEN inferSubjectTopicFromAI(o)
  ELSE extractTopicFromPrompt(originalPrompt)

\* inferSubjectTopicFromAI returns: the knowledge entry is upserted when a
\* tag was found, then saveMessages(combined document) is awaited
InferTopicReturn(o) ==
  /\ task.pc = "inferTopic"
  /\ knowledge' = IF TopicInfo(o) # None
                  THEN updateKnowledge(knowledge, LearnedData(TopicInfo(o)[1], Len(planSteps)), Now)
                  ELSE knowledge
  /\ task' = [task EXCEPT !.pc = "saveCombined", !.tracking = TopicInfo(o)]
  /\ UNCHANGED <<planFields, messages, schedules, chat, written, sent, restarts, quizHistory, otherTables, returned>>

\* the knowledge write throws: outputCombinedResult and executeTask reject
UpsertThrow(o) ==
  /\ task.pc = "inferTopic"
  /\ TopicInfo(o) # None
  /\ schedules' = RemoveAt(schedules, task.row)
  /\ task' = TaskIdle
  /\ UNCHANGED <<planFields, messages, knowledge, chat, written, sent, restarts, quizHistory, otherTables, returned>>

\* a reset that forgets the flag
ClearedPlanKeepsFlag ==
  [planSteps |-> <<>>, stepResults |-> <<>>, originalPrompt |-> <<>>,
   isProcessingPlan |-> TRUE]

\* "Reset state" at the end of outputCombinedResult
ClearedPlan ==
  [planSteps |-> <<>>, stepResults |-> <<>>, originalPrompt |-> <<>>,
   isProcessingPlan |-> FALSE]

\* saveMessages appends the combined document, then the plan state is reset
SaveCombinedReturn ==
  /\ task.pc = "saveCombined"
  /\ messages' = Append(messages, Msg("assistant", "combined", <<>>, <<>>, task.combined, task.tracking))
  /\ planSteps' = ClearedPlan.planSteps
  /\ stepResults' = ClearedPlan.stepResults
  /\ originalPrompt' = ClearedPlan.originalPrompt
  /\ isProcessingPlan' = ClearedPlan.isProcessingPlan
  /\ written' = {}
  /\ schedules' = RemoveAt(schedules, task.row)
  /\ task' = TaskIdle
  /\ UNCHANGED <<knowledge, chat, sent, restarts, quizHistory, otherTables, returned>>

\* saveMessages rejects: outputCombinedResult rejects before its reset
SaveCombinedThrow ==
  /\ task.pc = "saveCombined"
  /\ schedules' = RemoveAt(schedules, task.row)
  /\ task' = TaskIdle
  /\ UNCHANGED <<planFields, messages, knowledge, chat, written, sent, restarts, quizHistory, otherTables, returned>>

\* --------------------------------------------------------------- restart
\* The Durable Object is evicted and instantiated again: the field
\* initialisers run, calls in flight are gone, and what was persisted
\* (messages, schedule rows, tables) stays.  A row whose callback had not
\* ended is still there and is run again.
Restart ==
  /\ restarts < MaxRestarts
  /\ isProcessingPlan \/ chat.pc # "idle" \/ task.pc # "idle"
  /\ restarts' = restarts + 1
  /\ planSteps' = FieldInitialisers.planSteps
  /\ stepResults' = FieldInitialisers.stepResults
  /\ originalPrompt' = FieldInitialisers.originalPrompt
  /\ isProcessingPlan' = FieldInitialisers.isProcessingPlan
  /\ written' = {}
  /\ chat' = ChatIdle
  /\ task' = TaskIdle
  /\ UNCHANGED <<messages, schedules, knowledge, sent, quizHistory, otherTables, returned>>

\* ----------------------------------------------------- knowledge and quiz
\* Chat.recordQuiz: the quiz type is validated, the record is inserted, and
\* for a quiz with a topic the knowledge entry is created or updated; when
\* the validation or the INSERT throws nothing is written
RecordQuiz(data) ==
  /\ IF QuizAccepted(data)
     THEN /\ quizHistory' = Append(quizHistory, QuizRow(data))
          /\ knowledge' = QuizKnowledge(knowledge, data, Now)
          /\ returned' = Returned("message", "QUIZ_RECORDED")
     ELSE /\ UNCHANGED <<quizHistory, knowledge>>
          /\ returned' = Returned("error", IF data.quizType \in QuizTypes
                                           THEN "CHECK constraint failed"
                                           ELSE "Invalid quizType")
  /\ UNCHANGED <<orchestration, otherTables>>

\* a quiz with any score is recorded
QuizAnyScore(data) ==
  /\ Len(quizHistory) < MaxQuizzes
  /\ RecordQuiz(data)

\* a quiz with the score of the first quiz is recorded
QuizSameScore(data) ==
  /\ Len(quizHistory) < MaxRepeats
  /\ quizHistory # <<>> => data.score = quizHistory[1].score
  /\ RecordQuiz(data)

\* a quiz is recorded while the ledger and the quiz counters are small
QuizWhileFew(data) ==
  /\ Len(quizHistory) < MaxQuizzes
  /\ \A i \in 1..Len(knowledge) : knowledge[i].times_quizzed < MaxQuizzes
  /\ RecordQuiz(data)

\* the recordQuizResult tool: the schema is checked, then recordQuiz runs
RecordQuizResultTool(input) ==
  /\ Len(quizHistory) < MaxQuizzes
  /\ IF RecordQuizSchema(input)
     THEN RecordQuiz(input)
     ELSE /\ returned' = Returned("error", "schema")
          /\ UNCHANGED <<orchestration, knowledge, quizHistory, otherTables>>

\* a tool that writes what it is given
UpdateKnowledgeToolUnchecked(input) ==
  /\ knowledge' = updateKnowledge(knowledge, ToolUpdateData(input), Now)
  /\ returned' = Returned("message", "Knowledge updated")
  /\ UNCHANGED <<orchestration, quizHistory, otherTables>>

\* the updateKnowledge tool: the schema is checked, then updateKnowledge runs
UpdateKnowledgeTool(input) ==
  /\ knowledge' = IF UpdateKnowledgeSchema(input)
                  THEN CheckedUpdateKnowledge(knowledge, ToolUpdateData(input), Now)
                  ELSE knowledge
  /\ returned' = IF ~UpdateKnowledgeSchema(input) THEN Returned("error", "schema")
                 ELSE IF ~CheckPercent(OrElse(input.masteryLevel, MinPercent))
                         \/ ~CheckPercent(OrElse(input.confidence, MinPercent))
                      THEN Returned("error", "CHECK constraint failed")
                      ELSE Returned("message", "Knowledge updated")
  /\ UNCHANGED <<orchestration, quizHistory, otherTables>>

\* the knowledge write of outputCombinedResult for a plan of n steps
LearningPathUpsert(info, n) ==
  /\ knowledge' = updateKnowledge(knowledge, LearnedData(info, n), Now)
  /\ UNCHANGED <<orchestration, quizHistory, otherTables, returned>>

\* the getWeakAreas tool: the query, and a message when it finds nothing
GetWeakAreasTool(limit) ==
  /\ \E rows \in getWeakAreas(knowledge, OrElse(limit, DefaultLimit)) :
       returned' = IF Len(rows) = 0
                   THEN Returned("message", "No weak areas found")
                   ELSE Returned("weakAreas", rows)
  /\ UNCHANGED <<orchestration, knowledge, quizHistory, otherTables>>

\* ------------------------------------------- profile, sessions, reset
\* the updateUserProfile tool
UpdateUserProfileTool(data) ==
  /\ userProfile' = updateUserProfile(userProfile, data, Now)
  /\ returned' = Returned("message", "Saved")
  /\ UNCHANGED <<orchestration, knowledge, quizHistory, studySessions, sessionSeq,
                 sessionPreferences>>

\* Chat.updateSessionPreferences: the enumerated fields are validated, then
\* the row is inserted or updated
UpdateSessionPreferences(data) ==
  /\ IF PreferencesValid(data)
     THEN /\ sessionPreferences' = updateSessionPreferences(sessionPreferences, data)
          /\ returned' = Returned("message", "Session saved")
     ELSE /\ UNCHANGED sessionPreferences
          /\ returned' = Returned("error",
                 IF ~PreferencesValidGoalOnly(data) THEN "Invalid goal"
                 ELSE IF data.examDepth # None /\ data.examDepth[1] \notin ExamDepths
                      THEN "Invalid examDepth"
                      ELSE "Invalid quizType")
  /\ UNCHANGED <<orchestration, knowledge, quizHistory, studySessions, sessionSeq,
                 userProfile>>

\* Chat.startSession: the type is validated, then the row is inserted
StartSession(sessionType, subject, topic) ==
  /\ sessionSeq < MaxSessions
  /\ IF sessionType \in SessionTypes
     THEN /\ sessionSeq' = sessionSeq + 1
          /\ studySessions' =
               Append(studySessions, SessionRow(sessionSeq', sessionType, subject, topic))
          /\ returned' = Returned("sessionId", sessionSeq')
     ELSE /\ UNCHANGED <<studySessions, sessionSeq>>
          /\ returned' = Returned("error", "Invalid sessionType")
  /\ UNCHANGED <<orchestration, knowledge, quizHistory, userProfile, sessionPreferences>>

\* the endStudySession tool
EndStudySessionTool(sessionId, summary) ==
  /\ studySessions' = endSession(studySessions, sessionId, summary, Now)
  /\ returned' = Returned("message", "Study session ended")
  /\ UNCHANGED <<orchestration, knowledge, quizHistory, sessionSeq, userProfile,
                 sessionPreferences>>

\* Chat.resetProgress: the type is validated, then the tables of the type
\* are emptied
ResetProgress(resetType) ==
  /\ IF resetType \in ResetTypes
     THEN /\ knowledge' = IF ResetDeletes(resetType, "knowledge") THEN <<>> ELSE knowledge
          /\ quizHistory' = IF ResetDeletes(resetType, "quiz_history") THEN <<>> ELSE quizHistory
          /\ studySessions' =
               IF ResetDeletes(resetType, "study_sessions") THEN <<>> ELSE studySessions
          /\ userProfile' = IF ResetDeletes(resetType, "user_profile") THEN None ELSE userProfile
          /\ sessionPreferences' =
               IF ResetDeletes(resetType, "session_preferences") THEN None ELSE sessionPreferences
          /\ returned' = Returned("message", "Progress reset")
     ELSE /\ UNCHANGED <<knowledge, quizHistory, studySessions, userProfile, sessionPreferences>>
          /\ returned' = Returned("error", "Invalid resetType")
  /\ UNCHANGED <<orchestration, sessionSeq>>

\* the resetProgress tool: the schema, the confirmation gate, then
\* resetProgress
ResetProgressTool(resetType, userConfirmed) ==
  IF resetType \notin ResetTypes
  THEN /\ returned' = Returned("error", "schema")
       /\ UNCHANGED <<orchestration, knowledge, quizHistory, otherTables>>
  ELSE IF ~ResetGate(userConfirmed)
       THEN /\ returned' = Returned("message", "RESET_CANCELLED_MESSAGE")
            /\ UNCHANGED <<orchestration, knowledge, quizHistory, otherTables>>
       ELSE ResetProgress(resetType)

\* a call of Chat.getQuizStats
GetQuizStats(subject) ==
  /\ returned' = Returned("quizStats", getQuizStats(quizHistory, subject))
  /\ UNCHANGED <<orchestration, knowledge, quizHistory, otherTables>>

\* a quiz is recorded while the ledger is short
QuizForLedger(data) ==
  /\ Len(quizHistory) < MaxLedger
  /\ RecordQuiz(data)

\* ------------------------------------------------------------------ Next
Next ==
  \/ \E p \in Prompts : UserSends(p)
  \/ \E o \in ClassifierOutcomes : ClassifyReturn(o)
  \/ \E o \in PlanOutcomes : PlanReturn(o)
  \/ PlanThrow
  \/ AckSaved
  \/ AckSaveThrow
  \/ ScheduleFirst
  \/ SimpleReply
  \/ ExecuteTaskDrop
  \/ ExecuteTaskBegin
  \/ \E o \in StepOutcomes : ProcessStepReturn(o)
  \/ ProcessStepThrow
  \/ \E o \in TagOutcomes : InferTopicReturn(o)
  \/ \E o \in TagOutcomes : UpsertThrow(o)
  \/ SaveCombinedReturn
  \/ SaveCombinedThrow
  \/ Restart

Spec == Init /\ [][Next]_vars

\* quizzes on one topic, every score
NextQuiz == \E d \in ScoreInputs : QuizAnyScore(d)

SpecQuiz == Init /\ [][NextQuiz]_vars

\* one score submitted again and again for a topic without an entry
NextQuizRepeat == \E d \in ScoreInputs : QuizSameScore(d)

SpecQuizRepeat == Init /\ [][NextQuizRepeat]_vars

\* the writers of the knowledge table in any order
NextKnowledge ==
  \/ \E d \in QuizInputs : RecordQuizResultTool(d)
  \/ \E i \in ToolInputs : UpdateKnowledgeTool(i)
  \/ \E info \in TagInfos : LearningPathUpsert(info, MaxPlan)

SpecKnowledge == Init /\ [][NextKnowledge]_vars

\* entries on both sides of the weak-area limits, and the query
NextWeakAreas ==
  \/ \E i \in WeakAreaInputs : UpdateKnowledgeTool(i)
  \/ \E l \in LimitInputs : GetWeakAreasTool(l)

SpecWeakAreas == Init /\ [][NextWeakAreas]_vars

\* the writers of all five tables, and the reset
NextReset ==
  \/ \E d \in TypedQuizInputs : QuizWhileFew(d)
  \/ \E d \in ProfileInputs : UpdateUserProfileTool(d)
  \/ \E d \in PreferenceInputs : UpdateSessionPreferences(d)
  \/ \E t \in SessionTypeInputs : StartSession(t, None, None)
  \/ \E id \in 1..MaxSessions : EndStudySessionTool(id, <<"s">>)
  \/ \E t \in ResetTypeInputs : ResetProgress(t)
  \/ \E t \in ResetTypeInputs : \E c \in BOOLEAN : ResetProgressTool(t, c)
  \/ \E f \in SubjectFilters : GetQuizStats(f)

SpecReset == Init /\ [][NextReset]_vars

\* a ledger longer than the windows of the statistics, and the statistics
NextStats ==
  \/ \E d \in LedgerInputs : QuizForLedger(d)
  \/ \E f \in SubjectFilters : GetQuizStats(f)

SpecStats == Init /\ [][NextStats]_vars

\* ================================================================ claims
\* k is an index of the stored plan
ValidIndex(k) == k \in 0..(Len(planSteps) - 1)

\* no handler is running and no continuation is pending
Quiescent == chat.pc = "idle" /\ task.pc = "idle" /\ schedules = <<>>

\* the stored plan was acknowledged to the user
PlanAcknowledged ==
  \E i \in 1..Len(messages) : messages[i].kind = "ack" /\ messages[i].steps = planSteps

\* C1: the slots written for the stored plan are a prefix 0..k-1, and a step
\* is processed only when every earlier slot of the plan has been written.
C1_StepsInOrder ==
  /\ \A i \in written : \A j \in 0..(i - 1) : j \in written
  /\ task.pc = "processStep" => \A j \in 0..(task.idx - 1) : j \in written

\* C2: while isProcessingPlan is true, onChatMessage does not store a plan:
\* the stored plan and prompt are not overwritten.
C2_SingleFlight ==
  [][isProcessingPlan =>
       /\ ~(chat.pc = "plan" /\ chat'.pc = "saveAck")
       /\ (isProcessingPlan' => planSteps' = planSteps /\ originalPrompt' = originalPrompt)]_vars

\* C3: whenever outputCombinedResult ends, by returning or by throwing, the
\* four plan fields are cleared.
C3_CombinerAlwaysClears ==
  [][(task.pc \in {"inferTopic", "saveCombined"} /\ task'.pc = "idle") =>
       /\ planSteps' = <<>>
       /\ stepResults' = <<>>
       /\ originalPrompt' = <<>>
       /\ isProcessingPlan' = FALSE]_vars

\* C4: a restart after step 0 was written and PLAN_STEP:1 was enqueued keeps
\* the plan state, so that the continuation finds step 1 of the plan.
C4_CrashResume ==
  [][(restarts' = restarts + 1 /\ 0 \in written /\ task.pc = "idle"
        /\ \E i \in 1..Len(schedules) : schedules[i] = 1) =>
       /\ planSteps' = planSteps
       /\ stepResults' = stepResults
       /\ originalPrompt' = originalPrompt
       /\ isProcessingPlan' = isProcessingPlan]_vars

\* C5: a plan that was started never stalls: when nothing is running and no
\* continuation is pending, no acknowledged plan is still in progress.
C5_EveryPlanCompletes ==
  (Quiescent /\ PlanAcknowledged) => ~isProcessingPlan

\* C6: when the inference call of a step fails, the slot of the step holds
\* the empty string and the plan goes on: the next step is scheduled, or the
\* combiner runs after the last step.
C6_FailedStepContinues ==
  [][ProcessStepThrow =>
       /\ ArrayGet(stepResults', task.idx) = Some(<<>>)
       /\ \/ \E i \in 1..Len(schedules') : schedules'[i] = task.idx + 1
          \/ task'.pc = "inferTopic"]_vars

\* C7: a continuation is dropped exactly when its index is not an index of
\* the stored plan; one with a valid index is processed.
C7_DropIffInvalid ==
  [][\A i \in 1..Len(schedules) :
       /\ ExecuteTaskDropRow(i) => ~ValidIndex(schedules[i])
       /\ ExecuteTaskBeginRow(i) => ValidIndex(schedules[i])]_vars

\* C8: stepResults and planSteps have the same length in every state.
C8_SameLength == Len(stepResults) = Len(planSteps)

C10_StoreAckThenSchedule ==
  [][/\ \A o \in PlanOutcomes :
          (PlanReturn(o) /\ Len(generatePlan(o, chat.prompt)) >= 2) =>
             /\ originalPrompt' = chat.prompt
             /\ planSteps' = generatePlan(o, chat.prompt)
             /\ Len(stepResults') = Len(planSteps')
             /\ \A i \in 1..Len(stepResults') : stepResults'[i] = <<>>
             /\ isProcessingPlan'
             /\ chat'.pc = "saveAck"
             /\ messages' = messages
             /\ schedules' = schedules
     /\ AckSaved =>
             /\ Len(messages') = Len(messages) + 1
             /\ SubSeq(messages', 1, Len(messages)) = messages
             /\ messages'[Len(messages')].role = "assistant"
             /\ messages'[Len(messages')].kind = "ack"
             /\ messages'[Len(messages')].steps = chat.plan
             /\ Len(chat.plan) >= 2
             /\ schedules' = schedules
     /\ ScheduleFirst =>
             /\ schedules' = Append(schedules, 0)
             /\ \E i \in 1..Len(messages) :
                   messages[i].kind = "ack" /\ messages[i].steps = chat.plan
     /\ (Len(schedules') > Len(schedules) /\ schedules'[Len(schedules')] = 0) =>
             ScheduleFirst]_vars

\* the acknowledgment of the stored plan is saved and PLAN_STEP:0 is pending
C10_Witness ==
  /\ chat.pc = "idle"
  /\ isProcessingPlan
  /\ Len(planSteps) >= 2
  /\ stepResults = FillEmpty(Len(planSteps))
  /\ schedules = <<0>>
  /\ messages[Len(messages)].kind = "ack"
  /\ messages[Len(messages)].steps = planSteps

\* the plan fields and the continuations are as before the step
PlanUntouched ==
  /\ planSteps' = planSteps
  /\ stepResults' = stepResults
  /\ originalPrompt' = originalPrompt
  /\ isProcessingPlan' = isProcessingPlan
  /\ schedules' = schedules

\* C11: onChatMessage stores plan state and enqueues a continuation only for
\* a message classified LEARNING whose plan has at least 2 steps; a message
\* without text, a CONVERSATIONAL one and one whose plan has one step go to
\* the single-turn path and leave the plan fields and the continuations as
\* they are, also while another plan is executing.
C11_SingleTurnLeavesPlan ==
  [][/\ \A p \in Prompts : UserSends(p) =>
           /\ PlanUntouched
           /\ Len(trim(p)) = 0 => chat'.pc = "simple"
     /\ \A o \in ClassifierOutcomes : ClassifyReturn(o) =>
           /\ PlanUntouched
           /\ classifyIntent(chat.prompt, o) = "CONVERSATIONAL" => chat'.pc = "simple"
           /\ chat'.pc = "plan" => classifyIntent(chat.prompt, o) = "LEARNING"
     /\ \A o \in PlanOutcomes : PlanReturn(o) =>
           /\ Len(generatePlan(o, chat.prompt)) = 1 => (PlanUntouched /\ chat'.pc = "simple")
           /\ chat'.pc = "saveAck" => Len(generatePlan(o, chat.prompt)) >= 2
     /\ SimpleReply => PlanUntouched
     /\ (chat'.pc = "saveAck" /\ chat.pc # "saveAck") => chat.pc = "plan"
     /\ (chat'.pc = "plan" /\ chat.pc # "plan") => chat.pc = "classify"
     /\ (chat'.pc = "schedule" /\ chat.pc # "schedule") => chat.pc = "saveAck"]_vars

\* a single-turn reply was given while a stored plan is executing
C11_Witness ==
  /\ chat.pc = "idle"
  /\ sent = 2
  /\ messages[Len(messages)].kind = "reply"
  /\ isProcessingPlan
  /\ Len(planSteps) >= 2
  /\ 0 \in written

\* number of saved messages of a kind
CountKind(kind) == Cardinality({i \in 1..Len(messages) : messages[i].kind = kind})

\* C12: each acknowledged plan produces exactly one combined document: there
\* are never more documents than acknowledged plans, and when nothing is
\* running or pending (and the instance was never restarted) there are as
\* many documents as acknowledged plans.
C12_OneDocumentPerPlan ==
  /\ CountKind("combined") <= CountKind("ack")
  /\ (Quiescent /\ restarts = 0) => CountKind("combined") = CountKind("ack")

\* C13: at most one PLAN_STEP continuation is pending or running.
C13_OneContinuation == Len(schedules) <= 1

\* the text is empty or consists of whitespace
IsBlank(p) == \A i \in 1..Len(p) : IsSpace(p[i])

\* C14: for an empty or whitespace-only message classifyIntent returns
\* CONVERSATIONAL whatever the service would answer, and the message goes to
\* the single-turn path without waiting for a classification call.
C14_BlankIsConversational ==
  [][\A p \in Prompts : (UserSends(p) /\ IsBlank(p)) =>
        /\ chat'.pc = "simple"
        /\ \A o \in ClassifierOutcomes : classifyIntent(p, o) = "CONVERSATIONAL"]_vars

\* a whitespace-only message is on the single-turn path
C14_Witness ==
  /\ chat.pc = "simple"
  /\ messages[Len(messages)].role = "user"
  /\ messages[Len(messages)].text = PromptBlank

\* the first whitespace-separated token of raw is "learning" in any case
FirstTokenIsLearning(raw) ==
  \E a \in 1..Len(raw) :
    /\ \A j \in 1..(a - 1) : IsSpace(raw[j])
    /\ a + 7 <= Len(raw)
    /\ \A i \in 1..8 : lower(raw[a + i - 1]) = <<"l","e","a","r","n","i","n","g">>[i]
    /\ (a + 8 <= Len(raw) => IsSpace(raw[a + 8]))

\* C15: classifyIntent returns LEARNING exactly when the call succeeded and
\* the first token of the reply is LEARNING in any case; every other reply
\* and every failed call gives CONVERSATIONAL, and onChatMessage goes on.
C15_LearningOnlyOnFirstToken ==
  [][\A o \in ClassifierOutcomes : ClassifyReturn(o) =>
        /\ classifyIntent(chat.prompt, o) = "LEARNING" <=> (o.ok /\ FirstTokenIsLearning(o.raw))
        /\ classifyIntent(chat.prompt, o) \in {"LEARNING", "CONVERSATIONAL"}
        /\ chat'.pc = "plan" <=> (o.ok /\ FirstTokenIsLearning(o.raw))
        /\ chat'.pc = "simple" <=> ~(o.ok /\ FirstTokenIsLearning(o.raw))]_vars

\* a message was classified LEARNING and its plan is being generated
C15_Witness == chat.pc = "plan" /\ chat.prompt = PromptExplain

\* C16: generatePlan returns between 1 and 10 steps for every result of its
\* inference call.
C16_PlanLengthInRange ==
  [][\A o \in PlanOutcomes : PlanReturn(o) =>
        Len(generatePlan(o, chat.prompt)) \in 1..PlanCap]_vars

\* C17: generatePlan never throws: when its inference call fails, or the
\* result is not a list of steps, the plan is <<prompt>> and the message is
\* answered on the single-turn path.
C17_PlanFailsOpen ==
  [][/\ PlanThrow => chat'.pc = "simple"
     /\ \A o \in PlanOutcomes : (PlanReturn(o) /\ ~o.parses) =>
           /\ generatePlan(o, chat.prompt) = <<chat.prompt>>
           /\ chat'.pc = "simple"]_vars

\* C18: recordQuiz with a topic sets the mastery of the entry to the score
\* when the entry is new, and else to the nearest integer of
\* 0.7*prior + 0.3*score (halves upward), kept within 0..100.
C18_QuizMasteryRule ==
  [][\A d \in ScoreInputs : QuizAnyScore(d) =>
        LET before == getTopicMastery(knowledge, d.subject, d.topic[1])
            after  == getTopicMastery(knowledge', d.subject, d.topic[1])
        IN  /\ after # None
            /\ before = None => after[1].mastery_level = d.score
            /\ before # None =>
                 after[1].mastery_level =
                   Clamp((7 * before[1].mastery_level + 3 * d.score + 5) \div 10)]_vars

\* C19: when every quiz recorded for a topic that had no entry has the same
\* score S, the mastery of the entry is S after each of them.
C19_FixedPoint ==
  (quizHistory # <<>> /\ \A i \in 1..Len(quizHistory) : quizHistory[i].score = quizHistory[1].score)
    => LET entry == getTopicMastery(knowledge, SubjectCS, TopicIO)
       IN  entry # None /\ entry[1].mastery_level = quizHistory[1].score

\* the same score was recorded a second time
C19_Witness ==
  /\ Len(quizHistory) >= 2
  /\ quizHistory[2].score = quizHistory[1].score
  /\ quizHistory[1].score = 15
  /\ knowledge[1].times_quizzed >= 2

\* C20: every knowledge entry has mastery and confidence within 0..100.
C20_PercentagesInRange ==
  \A i \in 1..Len(knowledge) :
    /\ knowledge[i].mastery_level \in 0..100
    /\ knowledge[i].confidence \in 0..100

\* an entry written by a quiz, by the learning path and by the tool
C20_Witness ==
  \E i \in 1..Len(knowledge) :
    /\ knowledge[i].times_quizzed >= 1
    /\ knowledge[i].last_studied # None
    /\ knowledge[i].notes # None
    /\ knowledge[i].confidence = 100
    /\ knowledge[i].mastery_level = 1

\* the labels of a list, and a list without a repeated label
Labels(arr) == {arr[i] : i \in 1..Len(arr)}
NoDuplicate(arr) == \A i, j \in 1..Len(arr) : arr[i] = arr[j] => i = j

QuizzesRecordedFor(subject, topic) ==
  {i \in 1..Len(quizHistory) :
     quizHistory[i].subject = subject /\ quizHistory[i].topic = Some(topic)}

Rated(row, mastery, confidence) ==
  row.mastery_level = mastery /\ row.confidence = confidence

\* C23: getWeakAreas(limit) gives the entries with mastery under 60 or
\* confidence under 50, weakest first by mastery and then by confidence, cut
\* to the limit: an entry rated (59, 90) or (60, 49) is among the entries
\* it chooses from, an entry rated (60, 50) is not.
C23_WeakAreasQuery ==
  \A l \in 0..(MaxTopics + 1) : \A rows \in getWeakAreas(knowledge, l) :
    LET all   == 1..Len(knowledge)
        under == {i \in all : knowledge[i].mastery_level < 60 \/ knowledge[i].confidence < 50}
        given == {i \in all : \E a \in 1..Len(rows) : rows[a] = knowledge[i]}
    IN  /\ given \subseteq under
        /\ Len(rows) = (IF Cardinality(under) < l THEN Cardinality(under) ELSE l)
        /\ Cardinality(given) = Len(rows)
        /\ \A a \in 1..(Len(rows) - 1) :
              \/ rows[a].mastery_level < rows[a + 1].mastery_level
              \/ /\ rows[a].mastery_level = rows[a + 1].mastery_level
                 /\ rows[a].confidence <= rows[a + 1].confidence
        /\ \A i \in under \ given : \A a \in 1..Len(rows) :
              \/ rows[a].mastery_level < knowledge[i].mastery_level
              \/ /\ rows[a].mastery_level = knowledge[i].mastery_level
                 /\ rows[a].confidence <= knowledge[i].confidence
        /\ \A i \in all :
              /\ (Rated(knowledge[i], 59, 90) \/ Rated(knowledge[i], 60, 49)) => i \in under
              /\ Rated(knowledge[i], 60, 50) => i \notin given
        /\ l > Len(knowledge) => given = under

\* the query was asked with entries rated (59, 90), (60, 49) and (60, 50)
\* in the table and gave the first two, the (59, 90) one first
C23_Witness ==
  /\ returned.kind = "weakAreas"
  /\ Len(returned.value) = 2
  /\ Rated(returned.value[1], 59, 90)
  /\ Rated(returned.value[2], 60, 49)
  /\ \E i \in 1..Len(knowledge) : Rated(knowledge[i], 60, 50)

\* the five tables
tables == <<knowledge, quizHistory, studySessions, userProfile, sessionPreferences>>

\* C24: resetProgress(scope) empties the tables of its scope and nothing
\* else: knowledge the knowledge entries, quizzes the ledger, sessions the
\* study sessions, all these three and the profile and the preferences; the
\* weak-areas query gives the same before and after a reset of the quizzes.
C24_ResetDeletesItsScope ==
  [][\A t \in {"all", "knowledge", "quizzes", "sessions"} : ResetProgress(t) =>
        /\ knowledge' = (IF t \in {"knowledge", "all"} THEN <<>> ELSE knowledge)
        /\ quizHistory' = (IF t \in {"quizzes", "all"} THEN <<>> ELSE quizHistory)
        /\ studySessions' = (IF t \in {"sessions", "all"} THEN <<>> ELSE studySessions)
        /\ userProfile' = (IF t = "all" THEN None ELSE userProfile)
        /\ sessionPreferences' = (IF t = "all" THEN None ELSE sessionPreferences)
        /\ UNCHANGED <<orchestration, sessionSeq>>
        /\ t = "quizzes" =>
              \A l \in 0..2 : getWeakAreas(knowledge', l) = getWeakAreas(knowledge, l)]_vars

\* the last call was a reset, the ledger is empty and every other table
\* still has its rows, a weak entry among them
C24_Witness ==
  /\ returned = Returned("message", "Progress reset")
  /\ quizHistory = <<>>
  /\ knowledge # <<>> /\ getWeakAreas(knowledge, 1) # {<<>>}
  /\ studySessions # <<>>
  /\ userProfile # None
  /\ sessionPreferences # None

\* the call is answered with an error and no table has changed
Rejected == returned'.kind = "error" /\ UNCHANGED tables

\* C25: a write with a value outside its enum (goal, examDepth, quizType of
\* updateSessionPreferences, quizType of recordQuiz, sessionType of
\* startSession, resetType of resetProgress) is rejected with an error and
\* changes no table.
C25_InvalidEnumRejected ==
  [][/\ \A d \in PreferenceInputs :
          ( /\ \/ d.goal \notin {None, Some("learn"), Some("exam"), Some("quiz")}
               \/ d.examDepth \notin {None, Some("overview"), Some("moderate"), Some("deep")}
               \/ d.quizType \notin {None, Some("multiple_choice"), Some("free_response"),
                                      Some("mixed")}
            /\ UpdateSessionPreferences(d) ) => Rejected
     /\ \A d \in TypedQuizInputs :
          ( /\ d.quizType \notin {"multiple_choice", "free_response", "mixed"}
            /\ QuizWhileFew(d) ) => Rejected
     /\ \A t \in SessionTypeInputs :
          ( /\ t \notin {"learn", "review", "quiz", "exam_prep"}
            /\ StartSession(t, None, None) ) => Rejected
     /\ \A t \in ResetTypeInputs :
          ( /\ t \notin {"all", "knowledge", "quizzes", "sessions"}
            /\ ResetProgress(t) ) => Rejected]_vars

\* a call with a depth outside the enum was rejected while the preferences
\* had a goal and the other tables had rows
C25_Witness ==
  /\ returned = Returned("error", "Invalid examDepth")
  /\ sessionPreferences # None /\ sessionPreferences[1].goal = Some("learn")
  /\ sessionPreferences[1].exam_depth = None
  /\ knowledge # <<>> /\ quizHistory # <<>> /\ studySessions # <<>>

\* C26: the resetProgress tool deletes only when userConfirmed is true;
\* with userConfirmed false it changes no table and returns the
\* cancellation message.
C26_ResetNeedsConfirmation ==
  [][\A t \in {"all", "knowledge", "quizzes", "sessions"} :
        /\ ResetProgressTool(t, FALSE) =>
              /\ UNCHANGED tables
              /\ returned' = Returned("message", "RESET_CANCELLED_MESSAGE")
        /\ \A c \in BOOLEAN :
              (ResetProgressTool(t, c) /\ tables' # tables) => c = TRUE]_vars

\* a reset was cancelled while every table had rows
C26_Witness ==
  /\ returned = Returned("message", "RESET_CANCELLED_MESSAGE")
  /\ knowledge # <<>> /\ quizHistory # <<>> /\ studySessions # <<>>
  /\ userProfile # None /\ sessionPreferences # None

\* statistics of no quiz at all
NoQuizStats ==
  [totalQuizzes |-> 0, averageScore |-> 0, totalQuestions |-> 0, totalCorrect |-> 0,
   bestScore |-> 0, worstScore |-> 0, recentScores |-> <<>>, mostMissedConcepts |-> <<>>]

\* the ledger records that the filter selects: all of them when no subject
\* is given (absent or the empty string), else those of the subject
Matching(f) ==
  {i \in 1..Len(quizHistory) : f = None \/ f = Some(<<>>) \/ quizHistory[i].subject = f[1]}

\* C27: getQuizStats on an empty ledger, or with a subject no record has,
\* returns zero for the count, the average, the sums, the best and the
\* worst score and two empty lists, and no error; so it does after a reset
\* of the quizzes.
C27_EmptyStatsAreZero ==
  [][\A f \in SubjectFilters :
        (GetQuizStats(f) /\ Matching(f) = {}) => returned' = Returned("quizStats", NoQuizStats)]_vars

\* statistics were asked for a subject that none of the recorded quizzes has
C27_Witness ==
  /\ returned = Returned("quizStats", NoQuizStats)
  /\ quizHistory # <<>>
  /\ \A i \in 1..Len(quizHistory) : quizHistory[i].subject = SubjectCS

\* the n newest of a set of ledger records, and the place of a record among
\* them counted from the newest
Latest(S, n) == {i \in S : Cardinality({j \in S : j > i}) < n}
Place(S, i) == Cardinality({j \in S : j > i}) + 1

\* the missed concepts of ledger record i
MissedOf(i) == OrElse(quizHistory[i].missed_concepts, <<>>)

\* where concept c is missed in the records W: record and position
MissedAt(W, c) ==
  {ik \in W \X (1..MaxLedger) :
     ik[2] <= Len(MissedOf(ik[1])) /\ MissedOf(ik[1])[ik[2]] = c}

\* how often a concept is missed in the records W, and where it is met
\* first going from the newest record of S to the oldest
Occurrences(W, c) == Cardinality(MissedAt(W, c))
FirstMet(S, W, c) ==
  LET met == {Place(S, ik[1]) * (MaxLedger + 1) + ik[2] : ik \in MissedAt(W, c)}
  IN  CHOOSE v \in met : \A o \in met : v <= o

\* concept a is listed before concept b: it is missed more often, or as
\* often and met first
ListedBefore(S, W, a, b) ==
  \/ Occurrences(W, a) > Occurrences(W, b)
  \/ Occurrences(W, a) = Occurrences(W, b) /\ FirstMet(S, W, a) < FirstMet(S, W, b)

\* C28: getQuizStats gives as recentScores the scores of the 5 newest
\* records of the subject, newest first, and as mostMissedConcepts the 5
\* concepts missed most often in the 10 newest records of the subject, the
\* most frequent first and, of equally frequent ones, the one met first.
C28_RecentAndMostMissed ==
  \A f \in SubjectFilters :
    LET stats  == getQuizStats(quizHistory, f)
        S      == Matching(f)
        recent == Latest(S, 5)
        W      == Latest(S, 10)
        missed == UNION {Labels(MissedOf(i)) : i \in W}
        top    == stats.mostMissedConcepts
    IN  /\ Len(stats.recentScores) = Cardinality(recent)
        /\ \A i \in recent : stats.recentScores[Place(S, i)] = quizHistory[i].score
        /\ Labels(top) \subseteq missed
        /\ NoDuplicate(top)
        /\ Len(top) = (IF Cardinality(missed) < 5 THEN Cardinality(missed) ELSE 5)
        /\ \A a, b \in 1..Len(top) : a < b => ListedBefore(S, W, top[a], top[b])
        /\ \A c \in missed \ Labels(top) : \A a \in 1..Len(top) : ListedBefore(S, W, top[a], c)

\* p is a "Step N:" prefix with the blanks that follow it
IsStepPrefix(p) ==
  \E k \in 6..Len(p) :
    /\ p[1] \in {"s","S"} /\ p[2] \in {"t","T"} /\ p[3] \in {"e","E"} /\ p[4] \in {"p","P"}
    /\ p[5] = " "
    /\ \A i \in 6..k : IsDigit(p[i])
    /\ k < Len(p) /\ p[k + 1] = ":"
    /\ \A i \in (k + 2)..Len(p) : IsSpace(p[i])

\* heading is the step description without its leading "Step N:" prefix
HeadingOf(step, heading) ==
  IF \E n \in 1..Len(step) : IsStepPrefix(TakeFirst(step, n))
  THEN \E n \in 1..Len(step) :
         /\ IsStepPrefix(TakeFirst(step, n))
         /\ heading = DropFirst(step, n)
         /\ heading = <<>> \/ ~IsSpace(heading[1])
  ELSE heading = step

RatedInputs ==
  {[subject |-> SubjectCS, topic |-> TopicIO, masteryLevel |-> Some(1), confidence |-> Some(100),
    incrementStudyCount |-> TRUE, weakAreas |-> None, notes |-> None]}

\* a tool call of the streaming conversational reply
ToolCallInTurn(input) ==
  /\ chat.pc = "simple"
  /\ UpdateKnowledgeTool(input)

NextCombiner ==
  \/ Next
  \/ \E input \in RatedInputs : ToolCallInTurn(input)

SpecCombiner == Init /\ [][NextCombiner]_vars

\* the entry of a tag in a knowledge table, as an option
EntryOf(kn, tag) == getTopicMastery(kn, tag.subject, tag.topic)

\* C30: when the topic inference of the combiner yields a tag, the entry
\* of that tag exists afterwards with mastery 50 and the current time as
\* last-studied, every other entry is as it was, and the combined
\* document that is saved next carries the confirmation line of that tag.
C30_TagUpsertsMasteryFifty ==
  [][/\ \A o \in TagOutcomes : (InferTopicReturn(o) /\ TopicInfo(o) # None) =>
          LET tag == TopicInfo(o)[1] IN
            /\ EntryOf(knowledge', tag) # None
            /\ EntryOf(knowledge', tag)[1].mastery_level = 50
            /\ EntryOf(knowledge', tag)[1].last_studied = Some(Now)
            /\ \A i \in 1..Len(knowledge) :
                  (knowledge[i].subject # tag.subject \/ knowledge[i].topic # tag.topic)
                     => knowledge'[i] = knowledge[i]
            /\ task'.tracking = Some(tag)
     /\ (SaveCombinedReturn /\ task.tracking # None) =>
          /\ messages'[Len(messages')].kind = "combined"
          /\ messages'[Len(messages')].tracking = task.tracking]_vars

\* a combined document with a confirmation line was saved, and the entry
\* it names has the confidence 100 the tool gave it together with mastery
\* 1, and now mastery 50
C30_Witness ==
  /\ \E i \in 1..Len(messages) :
        /\ messages[i].kind = "combined"
        /\ messages[i].tracking = Some([subject |-> SubjectCS, topic |-> TopicIO])
  /\ \E i \in 1..Len(knowledge) :
        /\ knowledge[i].subject = SubjectCS
        /\ knowledge[i].topic = TopicIO
        /\ knowledge[i].confidence = 100
        /\ knowledge[i].mastery_level = 50

\* ---------------------------------------------------------------------
\* The tagging of the combiner on prompts whose heuristic topic is too
\* short, and on AI replies whose fields are blank after trimming.

\* "explain x": the heuristic topic is one character
PromptShort == <<"e","x","p","l","a","i","n"," ","x">>

\* prompts whose heuristic topic has two, one and no characters
TagPrompts == {PromptExplain, PromptShort, PromptBare}

\* replies of the topic-inference call, among them {"subject": " ", "topic": "x"}
TagReplies ==
  TagOutcomes \cup { [ok |-> TRUE, json |-> Some([subject |-> <<" ">>, topic |-> <<"x">>])] }

NextTagging ==
  \/ \E p \in TagPrompts : UserSends(p)
  \/ \E o \in ClassifierOutcomes : ClassifyReturn(o)
  \/ \E o \in PlanOutcomes : PlanReturn(o)
  \/ PlanThrow
  \/ AckSaved
  \/ AckSaveThrow
  \/ ScheduleFirst
  \/ SimpleReply
  \/ ExecuteTaskDrop
  \/ ExecuteTaskBegin
  \/ \E o \in StepOutcomes : ProcessStepReturn(o)
  \/ ProcessStepThrow
  \/ \E o \in TagReplies : InferTopicReturn(o)
  \/ \E o \in TagReplies : UpsertThrow(o)
  \/ SaveCombinedReturn
  \/ SaveCombinedThrow
  \/ Restart

SpecTagging == Init /\ [][NextTagging]_vars

\* the prompt without its leading phrase and its question marks
HeuristicTopic(prompt) ==
  trim(StripQuestionMarks(StripTrailingFiller(StripQuestionPrefix(prompt))))

\* C31: when the AI inference gives no tag and the heuristic topic of the
\* prompt has fewer than 2 characters, the combiner leaves the knowledge
\* table as it is, and the document it saves next is the combined one,
\* without a tag, after which the plan state is cleared.
C31_NoTagNoUpsert ==
  [][/\ \A o \in TagReplies :
          (/\ InferTopicReturn(o)
           /\ (~o.ok \/ o.json = None)
           /\ Len(HeuristicTopic(originalPrompt)) < 2) =>
             /\ knowledge' = knowledge
             /\ task'.tracking = None
             /\ task'.pc = "saveCombined"
     /\ (SaveCombinedReturn /\ task.tracking = None) =>
          /\ messages' = Append(messages, messages'[Len(messages')])
          /\ messages'[Len(messages')].kind = "combined"
          /\ messages'[Len(messages')].sections = task.combined
          /\ messages'[Len(messages')].tracking = None
          /\ planSteps' = <<>>
          /\ stepResults' = <<>>
          /\ originalPrompt' = <<>>
          /\ isProcessingPlan' = FALSE]_vars

\* a combined document without a tag was saved for a prompt with a
\* one-character topic, the plan state is cleared, nothing was upserted
C31_Witness ==
  /\ Len(messages) >= 3
  /\ messages[1].role = "user"
  /\ messages[1].text = PromptShort
  /\ messages[Len(messages)].kind = "combined"
  /\ messages[Len(messages)].tracking = None
  /\ planSteps = <<>>
  /\ ~isProcessingPlan
  /\ knowledge = <<>>

\* C38: every knowledge upsert of the combiner is for a tag with a
\* non-empty subject and a topic of at least 2 characters, whether the
\* tag is the one of the AI reply or the heuristic one.
C38_UpsertedTagIsWellFormed ==
  [][\A o \in TagReplies : (InferTopicReturn(o) /\ TopicInfo(o) # None) =>
        /\ knowledge' = updateKnowledge(knowledge, LearnedData(TopicInfo(o)[1], Len(planSteps)), Now)
        /\ Len(TopicInfo(o)[1].subject) > 0
        /\ Len(TopicInfo(o)[1].topic) >= 2]_vars

\* the first n records of a ledger
FirstRecords(ledger, n) == SubSeq(ledger, 1, n)

\* C32: the quiz ledger is append-only. A recordQuiz call that is accepted
\* adds exactly one record behind the ones that exist, a rejected one adds
\* none, and a step that is not resetProgress with scope quizzes or all
\* leaves every existing record in its place and as it was; only a
\* recordQuiz call makes the ledger longer.
C32_LedgerAppendOnly ==
  [][/\ \A d \in TypedQuizInputs : QuizWhileFew(d) =>
          IF returned'.kind = "message"
          THEN /\ Len(quizHistory') = Len(quizHistory) + 1
               /\ FirstRecords(quizHistory', Len(quizHistory)) = quizHistory
               /\ quizHistory'[Len(quizHistory')].score = d.score
               /\ quizHistory'[Len(quizHistory')].quiz_type = d.quizType
          ELSE quizHistory' = quizHistory
     /\ (~ \E t \in {"quizzes", "all"} : ResetProgress(t)) =>
          /\ Len(quizHistory') >= Len(quizHistory)
          /\ FirstRecords(quizHistory', Len(quizHistory)) = quizHistory
     /\ (~ \E d \in TypedQuizInputs : QuizWhileFew(d)) =>
          Len(quizHistory') <= Len(quizHistory)]_vars

\* two records are in the ledger after a reset of another scope, a
\* profile update and a session start and end
C32_Witness ==
  /\ Len(quizHistory) = 2
  /\ knowledge = <<>>
  /\ userProfile # None
  /\ Len(studySessions) > 0
  /\ returned.kind = "message"
  /\ returned.value = "Progress reset"

\* the (subject, topic) keys of a knowledge table
Keys(kn) == {<<kn[i].subject, kn[i].topic>> : i \in 1..Len(kn)}

\* C33: after every updateKnowledge tool call, quiz submission and
\* learning-path upsert the knowledge table has one entry per (subject,
\* topic): the keys that existed are still there, a write for an existing
\* key adds no row, and a write for a new key adds one.
C33_OneEntryPerTopic ==
  [][/\ \A i, j \in 1..Len(knowledge') :
          (knowledge'[i].subject = knowledge'[j].subject
             /\ knowledge'[i].topic = knowledge'[j].topic) => i = j
     /\ Keys(knowledge) \subseteq Keys(knowledge')
     /\ Len(knowledge') = Len(knowledge) + Cardinality(Keys(knowledge') \ Keys(knowledge))
     /\ Cardinality(Keys(knowledge') \ Keys(knowledge)) <= 1]_vars

\* the entry of one topic was written by a quiz, by the tool and by the
\* learning path, next to an entry of another subject
C33_Witness ==
  /\ Len(knowledge) >= 2
  /\ \E i \in 1..Len(knowledge) :
        /\ knowledge[i].subject = SubjectCS
        /\ knowledge[i].topic = TopicIO
        /\ knowledge[i].times_quizzed >= 2
        /\ knowledge[i].confidence = 100
        /\ knowledge[i].notes # None

\* ---------------------------------------------------------------------
\* onChatMessage invoked on the history as it is: by saveMessages after
\* an assistant message was stored, or by a client that asks again.

\* a guard that tests only that there is a last message
HasLastMessage(msgs) == Len(msgs) > 0

\* `userMessage && userMessage.role === "user"` of onChatMessage
LastIsUser(msgs) == Len(msgs) > 0 /\ msgs[Len(msgs)].role = "user"

\* onChatMessage without a new message: an empty stream when the last
\* message is not a user message, else the last message is processed
OnChatMessageAgain ==
  IF ~LastIsUser(messages)
  THEN /\ returned' = Returned("stream", "empty")
       /\ UNCHANGED <<orchestration, knowledge, quizHistory, otherTables>>
  ELSE /\ chat.pc = "idle"
       /\ LET p == messages[Len(messages)].text
          IN  chat' = IF p = <<>> THEN [ChatIdle EXCEPT !.pc = "simple"]
                      ELSE IF ~ClassifierCalled(p) THEN [ChatIdle EXCEPT !.pc = "simple"]
                      ELSE [ChatIdle EXCEPT !.pc = "classify", !.prompt = p]
       /\ UNCHANGED <<planFields, messages, schedules, knowledge, task, written, sent,
                      restarts, quizHistory, otherTables, returned>>

\* one learning prompt, both intents, a two-step plan and a reply from
\* which no plan is taken
RetriggerIntents ==
  { [ok |-> TRUE, raw |-> <<" ","l","e","a","r","n","i","n","g"," ","x">>],
    [ok |-> TRUE, raw |-> <<"C","O","N","V","E","R","S","A","T","I","O","N","A","L">>] }
RetriggerPlans ==
  { [shape |-> "array", parses |-> TRUE, steps |-> <<StepNumbered, StepNumbered>>],
    [shape |-> "other", parses |-> FALSE, steps |-> <<>>] }

NextRetrigger ==
  \/ UserSends(PromptExplain)
  \/ OnChatMessageAgain
  \/ \E o \in RetriggerIntents : ClassifyReturn(o)
  \/ \E o \in RetriggerPlans : PlanReturn(o)
  \/ PlanThrow
  \/ AckSaved
  \/ AckSaveThrow
  \/ ScheduleFirst
  \/ SimpleReply
  \/ ExecuteTaskDrop
  \/ ExecuteTaskBegin
  \/ \E o \in StepOutcomes : ProcessStepReturn(o)
  \/ ProcessStepThrow
  \/ \E o \in TagOutcomes : InferTopicReturn(o)
  \/ \E o \in TagOutcomes : UpsertThrow(o)
  \/ SaveCombinedReturn
  \/ SaveCombinedThrow
  \/ Restart

SpecRetrigger == Init /\ [][NextRetrigger]_vars

\* C34: onChatMessage invoked while there is no last message or the last
\* message is not from the user changes nothing but its own response: no
\* classification or plan call is started, the plan fields, the schedule,
\* the running continuation and the messages are as they were.
C34_NonUserLastMessageIsSkipped ==
  [][(OnChatMessageAgain /\ (messages = <<>> \/ messages[Len(messages)].role # "user")) =>
        /\ chat' = chat
        /\ UNCHANGED planFields
        /\ schedules' = schedules
        /\ messages' = messages
        /\ task' = task
        /\ written' = written
        /\ UNCHANGED <<knowledge, quizHistory, otherTables>>
        /\ returned' = Returned("stream", "empty")]_vars

\* onChatMessage returned the empty stream while the acknowledgement is
\* the last message and the first continuation of the plan is queued
C34_Witness ==
  /\ returned = Returned("stream", "empty")
  /\ Len(messages) > 0
  /\ messages[Len(messages)].role = "assistant"
  /\ messages[Len(messages)].kind = "ack"
  /\ isProcessingPlan
  /\ Len(schedules) > 0

\* times_studied of the entry of (subject, topic), 0 when there is none
TimesStudied(kn, subject, topic) ==
  IF HasTopic(kn, subject, topic) THEN getTopicMastery(kn, subject, topic)[1].times_studied
  ELSE 0

\* C35: an updateKnowledge tool call with incrementStudyCount = true that
\* is carried out leaves times_studied of the entry one higher than it
\* was (1 for an entry it creates), however often it is repeated.
C35_StudyCountIncrements ==
  [][\A input \in ToolInputs :
        (UpdateKnowledgeTool(input) /\ input.incrementStudyCount
           /\ returned' = Returned("message", "Knowledge updated")) =>
          TimesStudied(knowledge', input.subject, input.topic)
            = TimesStudied(knowledge, input.subject, input.topic) + 1]_vars

\* the rows of entries other than (subject, topic) are as they were
OthersKept(subject, topic) ==
  /\ Len(knowledge') = Len(knowledge)
  /\ \A i \in 1..Len(knowledge) :
        (knowledge[i].subject # subject \/ knowledge[i].topic # topic)
           => knowledge'[i] = knowledge[i]

\* the entry of (subject, topic) before and after the step
Before(subject, topic) == getTopicMastery(knowledge, subject, topic)[1]
After(subject, topic) == getTopicMastery(knowledge', subject, topic)[1]

\* C36: updateKnowledge on an existing (subject, topic) changes only the
\* fields supplied in the call, and only in that entry. For the tool
\* these are mastery and confidence when given and the study count and
\* time with incrementStudyCount; for a quiz mastery, quiz count, quiz
\* time and weak areas; for the learning path mastery, study time and
\* notes. Every other field and every other entry keeps its value.
C36_OnlySuppliedFieldsChange ==
  [][/\ \A input \in ToolInputs :
          (UpdateKnowledgeTool(input) /\ HasTopic(knowledge, input.subject, input.topic)) =>
             LET b == Before(input.subject, input.topic)
                 a == After(input.subject, input.topic)
             IN  /\ OthersKept(input.subject, input.topic)
                 /\ input.masteryLevel = None => a.mastery_level = b.mastery_level
                 /\ input.confidence = None => a.confidence = b.confidence
                 /\ ~input.incrementStudyCount =>
                       a.times_studied = b.times_studied /\ a.last_studied = b.last_studied
                 /\ input.weakAreas = None => a.weak_areas = b.weak_areas
                 /\ input.notes = None => a.notes = b.notes
                 /\ a.times_quizzed = b.times_quizzed
                 /\ a.last_quizzed = b.last_quizzed
     /\ \A info \in TagInfos :
          (LearningPathUpsert(info, MaxPlan) /\ HasTopic(knowledge, info.subject, info.topic)) =>
             LET b == Before(info.subject, info.topic)
                 a == After(info.subject, info.topic)
             IN  /\ OthersKept(info.subject, info.topic)
                 /\ a.confidence = b.confidence
                 /\ a.times_quizzed = b.times_quizzed
                 /\ a.weak_areas = b.weak_areas
                 /\ a.times_studied = b.times_studied
                 /\ a.last_quizzed = b.last_quizzed
     /\ \A d \in QuizInputs :
          (RecordQuizResultTool(d) /\ d.topic # None
             /\ HasTopic(knowledge, d.subject, d.topic[1])) =>
             LET b == Before(d.subject, d.topic[1])
                 a == After(d.subject, d.topic[1])
             IN  /\ OthersKept(d.subject, d.topic[1])
                 /\ a.confidence = b.confidence
                 /\ a.times_studied = b.times_studied
                 /\ a.last_studied = b.last_studied
                 /\ a.notes = b.notes]_vars

\* the learning path wrote mastery 50 into an entry that a quiz and the
\* tool had written before, next to the entry of another subject
C36_Witness ==
  /\ Len(knowledge) >= 2
  /\ \E i \in 1..Len(knowledge) :
        /\ knowledge[i].subject = SubjectCS
        /\ knowledge[i].topic = TopicIO
        /\ knowledge[i].mastery_level = 50
        /\ knowledge[i].confidence = 100
        /\ knowledge[i].times_quizzed >= 1
        /\ knowledge[i].weak_areas # None
        /\ knowledge[i].notes # None

\* C37: a recordQuiz call without a topic that is accepted appends one
\* record, with no topic, to the ledger and leaves the knowledge table as
\* it is: no entry is created or modified.
C37_TopiclessQuizLeavesKnowledge ==
  [][\A d \in QuizInputs :
        (RecordQuizResultTool(d) /\ d.topic = None
           /\ returned' = Returned("message", "QUIZ_RECORDED")) =>
          /\ Len(quizHistory') = Len(quizHistory) + 1
          /\ SubSeq(quizHistory', 1, Len(quizHistory)) = quizHistory
          /\ quizHistory'[Len(quizHistory')].topic = None
          /\ quizHistory'[Len(quizHistory')].subject = d.subject
          /\ quizHistory'[Len(quizHistory')].score = d.score
          /\ knowledge' = knowledge]_vars

\* a quiz without topic is the last record of the ledger, after an entry
\* of its subject was written by the tool, and no entry counts a quiz
C37_Witness ==
  /\ Len(quizHistory) >= 1
  /\ quizHistory[Len(quizHistory)].topic = None
  /\ returned = Returned("message", "QUIZ_RECORDED")
  /\ Len(knowledge) >= 1
  /\ \A i \in 1..Len(knowledge) :
        knowledge[i].subject = SubjectCS /\ knowledge[i].times_quizzed = 0

====
